---------------------------- MODULE Spec2Model ----------------------------
(***************************************************************************)
(* A model of the SDF atlas generator (ahammer/metalrain,                  *)
(* distance-field-generator).  The Rust sources are carried as string      *)
(* literals in src/distance-field-generator/script_2.py and script_3.py;   *)
(* line numbers below refer to those files.                                *)
(*                                                                         *)
(*   SpecPack    atlas::packer::pack_atlas          (script_3.py 394-445)  *)
(*   SpecSdf     SdfGenerator::generate_sdf_from_mask and                  *)
(*               calculate_distance_to_edge         (script_3.py 21-96)    *)
(*   SpecCircle  generate_circle_sdf                (script_3.py 126-145)  *)
(*   SpecMsdf    SdfGenerator::generate_msdf_from_mask (script_3.py 42-60) *)
(*   SpecPackOnce  one call of pack_atlas                                  *)
(*   SpecGenerate  SdfGenerator::generate           (script_2.py 200-293)  *)
(*   SpecUpdate  the position loop of generate      (script_2.py 257-272)  *)
(*   SpecJson    the registry written and read as JSON                     *)
(*                                                  (script_2.py 114-183)  *)
(*   SpecCopy    pack_atlas with its tile copies as concurrent tasks       *)
(*                                                  (script_3.py 411-444)  *)
(*   SpecGenerateTwice  two calls of generate                              *)
(*   SpecRegistry  atlas::registry::create_registry (script_3.py 453-508)  *)
(*   SpecMain    main                               (script_2.py 85-122)   *)
(*   SpecTriangle  triangle_sdf on the points of generate_triangle_sdf     *)
(*                                                  (script_3.py 147-243)  *)
(*                                                                         *)
(* Numbers.  u32 values are kept as integers; the one u32 subtraction that *)
(* can wrap (content_size, line 409) keeps the signed representative of    *)
(* its residue modulo 2^32, so a negative content_size c stands for the    *)
(* u32 value 2^32 + c.  f32 distances are of the form (a + b*sqrt(q))/den  *)
(* with integer a, b, q, den and are kept as such records; the range       *)
(* parameter is counted in half pixels (range = range2 / 2).               *)
(* The triangle SDF is computed in binary32 arithmetic, operation by       *)
(* operation, on values (-1)^neg * man * 2^exp.                            *)
(***************************************************************************)
EXTENDS Integers, Sequences, FiniteSets, TLC

VARIABLES
    \* ---- pack_atlas ----
    ids,            \* the ids of the `images` argument, in input order
    atlas_size,     \* argument
    padding,        \* argument
    call,           \* 1 | 2: which call of pack_atlas on this tile list is running
    pc,             \* "entry" | "loop" | "ok" | "panic" | "idle"
    i,              \* loop index of `for (i, (id, image)) in ...`
    grid_size,      \* local, line 407
    cell_size,      \* local, line 408
    content_size,   \* local, line 409
    positions,      \* local HashMap<String, AtlasPosition>
    atlas,          \* local RgbaImage, atlas[x][y]: tone, 0 = untouched (transparent)
    prev,           \* what the previous call on the same list returned
    \* ---- distance fields ----
    fn,             \* "sdf" | "msdf" | "circle" | "none": the generator that is running
    fpc,            \* "loop" | "rgb" | "ok" | "idle"
    width,          \* image width
    height,         \* image height
    range2,         \* the range argument, in half pixels
    mask,           \* the mask argument: pixel -> u8
    k,              \* number of pixels written so far (row-major cursor)
    distance,       \* pixel -> the local `distance` computed for it
    out,            \* the output GrayImage: pixel -> u8
    msdf,           \* the output RgbImage of generate_msdf_from_mask
    \* ---- SdfGenerator::generate ----
    config,         \* self.config
    gpc,            \* "start" | "shapes" | "pack" | "packing" | "registry"
                    \* | "ok" | "err" | "idle"
    characters,     \* local HashMap<char, CharacterInfo>
    shapes,         \* local HashMap<String, ShapeInfo>
    sdf_images,     \* local Vec<(String, DynamicImage)>
    result,         \* the SdfResult returned
    \* ---- the registry as JSON ----
    reg,            \* the SdfRegistry that is serialized
    texts,          \* the JSON texts produced from it so far
    parsed,         \* what serde_json::from_str makes of the first text
    jpc,            \* "write" | "read" | "done" | "idle"
    \* ---- two runs of generate ----
    earlier,        \* what the earlier run of generate returned
    \* ---- the tile copies of pack_atlas as concurrent tasks ----
    cursor,         \* tile -> number of iterations of its copy loops done
    writers,        \* atlas pixel -> the tiles that wrote it
    \* ---- main ----
    mpc,            \* "start" | "save" | "serialize" | "write" | "ok" | "err"
                    \* | "idle"
    files,          \* the output files present in the working directory
    \* ---- create_registry ----
    glyph_metrics,        \* the caller's glyph metrics: char -> metrics
    character_positions,  \* argument
    shape_positions,      \* argument
    registry,             \* the SdfRegistry returned
    \* ---- triangle_sdf ----
    tri_input,      \* the pixel of generate_triangle_sdf and the point passed
    tri_value       \* what triangle_sdf returned for it

packVars == <<ids, atlas_size, padding, call, pc, i, grid_size,
              cell_size, content_size, positions, atlas, prev>>
fieldVars == <<fn, fpc, width, height, range2, mask, k, distance, out, msdf>>
genVars == <<config, gpc, characters, shapes, sdf_images, result, earlier>>
jsonVars == <<reg, texts, parsed, jpc>>
copyVars == <<cursor, writers>>
mainVars == <<mpc, files>>
registryVars == <<glyph_metrics, character_positions, shape_positions,
                  registry>>
triangleVars == <<tri_input, tri_value>>
toolVars == <<copyVars, mainVars, registryVars, triangleVars>>
vars == <<packVars, fieldVars, genVars, jsonVars, toolVars>>

-----------------------------------------------------------------------------
(* Bounds of the model *)

MaxTiles == 4
MaxAtlas == 6
MaxPadding == 1
MaxPixels == 6
MaxRange2 == 4
MaxSize == 6
MaxChars == 2
MaxSdfSize == 2
MaxTriangleSize == 10

-----------------------------------------------------------------------------
(* Small helpers *)

Min(a, b) == IF a <= b THEN a ELSE b
Max(a, b) == IF a >= b THEN a ELSE b
Abs(a) == IF a < 0 THEN -a ELSE a

SetOfSeq(s) == {s[n] : n \in DOMAIN s}

EmptyMap == [x \in {} |-> 0]


-----------------------------------------------------------------------------
(* pack_atlas: the inputs *)

\* Tile identifiers.  A tile list is drawn up to renaming of its ids: the
\* first tile is "A", and each later tile either repeats an id already used
\* or takes the next unused name.  This covers every pattern of equal and
\* distinct ids in a list.
IdNames == <<"A", "B", "C", "D", "E", "F", "G", "H">>

IdLists ==
    UNION {{[m \in 1..n |-> IdNames[f[m]]] :
              f \in {g \in [1..n -> 1..n] :
                       \A m \in 1..n :
                          g[m] <= 1 + Cardinality({g[j] : j \in 1..(m - 1)})
                          /\ \A j \in 1..g[m] : \E h \in 1..m : g[h] = j}}
           : n \in 0..MaxTiles}

\* A tile image as pack_atlas sees it: its native side and its content.  The
\* images of this model are uniformly toned; tone 0 is kept for atlas pixels
\* nobody wrote (RgbaImage::new is all-zero, and to_rgba8 gives every copied
\* pixel alpha 255, so a copied pixel is never all-zero).
Images == [side : {1, 2}, tone : {1, 2}]

-----------------------------------------------------------------------------
(* pack_atlas: lines 402-445 *)

\* (image_count as f32).sqrt().ceil() as u32, line 407: the least g with
\* g*g >= n (exact for every n whose square root f32 represents, n < 2^24).
RECURSIVE CeilSqrtFrom(_, _)
CeilSqrtFrom(n, g) == IF g * g >= n THEN g ELSE CeilSqrtFrom(n, g + 1)

GridSize(image_count) == CeilSqrtFrom(image_count, 0)


\* A cell size rounded up instead of down.
CellSizeRoundedUp(a, g) == (a + g - 1) \div g

\* atlas_size / grid_size, line 408: u32 division.  It is applied for
\* grid_size > 0 only; PackEnter models the panic at grid_size = 0.
CellSize(a, g) == a \div g

\* cell_size - padding * 2, line 409, as the signed representative of the
\* u32 result: negative exactly when the subtraction wrapped.
ContentSize(c, p) == c - p * 2


\* Column-major fill, and a row index taken modulo the grid side.
GridXColumnMajor(n, g) == n \div g
GridYModulo(n, g) == n % g

\* A content origin that ignores the tile's grid column.
TileXFirstColumn(n, g, c, p) == p

\* Lines 412-416: the grid cell of tile i and the origin of its content.
GridX(n, g) == n % g
GridY(n, g) == n \div g
TileX(n, g, c, p) == GridX(n, g) * c + p
TileY(n, g, c, p) == GridY(n, g) * c + p

\* image.resize_exact(content_size, content_size, Lanczos3), lines 419-423:
\* an image of exactly the requested side whatever the native side.
ResizeExact(image, s) == [side |-> s, tone |-> image.tone]

\* A wrapped content_size asks resize_exact for more than 2^31 pixels a side:
\* the buffer cannot be allocated and the call panics.
ResizePanics(s) == s < 0

\* A copy whose loops run one pixel past the content, 0..=content_size.
CopyTilePastContent(at, a, x, y, s, resized) ==
    [ax \in DOMAIN at |->
        [ay \in DOMAIN at[ax] |->
            IF /\ ax >= x /\ ax <= x + s
               /\ ay >= y /\ ay <= y + s
               /\ ax < a /\ ay < a
            THEN resized.tone
            ELSE at[ax][ay]]]

\* Lines 427-434: the guarded copy of the resized tile into the atlas
\* (the atlas is indexed atlas[x][y]).
CopyTile(at, a, x, y, s, resized) ==
    [ax \in DOMAIN at |->
        [ay \in DOMAIN at[ax] |->
            IF /\ ax >= x /\ ax < x + s
               /\ ay >= y /\ ay < y + s
               /\ ax < a /\ ay < a
            THEN resized.tone
            ELSE at[ax][ay]]]


\* A position that records the tile's native side instead of content_size.
NewPositionNativeSide(x, y, s, image) ==
    [x |-> x, y |-> y, width |-> image.side, height |-> image.side]

\* Lines 436-441: the AtlasPosition recorded for a tile.
NewPosition(x, y, s, image) == [x |-> x, y |-> y, width |-> s, height |-> s]


\* A map that is created anew for every tile.
InsertIntoFresh(m, id, pos) == [key \in {id} |-> pos]

\* positions.insert(id, ...), line 436: HashMap insertion, last write wins.
Insert(m, id, pos) ==
    [key \in DOMAIN m \cup {id} |-> IF key = id THEN pos ELSE m[key]]

\* image::RgbaImage::new(atlas_size, atlas_size), line 403.
NewAtlas(a) == [ax \in 0..(a - 1) |-> [ay \in 0..(a - 1) |-> 0]]

NoResult == [status |-> "none", positions |-> EmptyMap, atlas |-> EmptyMap]

\* Lines 402-409.  Division by a zero grid_size panics in every build.  The
\* subtraction of line 409, when it wraps, panics in a build with overflow
\* checks (debug) and yields the wrapped value in one without (release):
\* either outcome may be the program's.
PackEnter ==
    /\ pc = "entry"
    /\ positions' = EmptyMap
    /\ atlas' = NewAtlas(atlas_size)
    /\ i' = 0
    /\ LET g == GridSize(Len(ids))
       IN  /\ grid_size' = g
           /\ IF g = 0
              THEN /\ pc' = "panic"
                   /\ UNCHANGED <<cell_size, content_size>>
              ELSE LET c == CellSize(atlas_size, g)
                       s == ContentSize(c, padding)
                   IN  /\ cell_size' = c
                       /\ \/ /\ s < 0
                             /\ pc' = "panic"
                             /\ UNCHANGED content_size
                          \/ /\ pc' = "loop"
                             /\ content_size' = s
    /\ UNCHANGED <<ids, atlas_size, padding, call, prev, fieldVars,
                   genVars, jsonVars,
                   toolVars>>

\* The image that comes with tile n of the `images` argument.  A caller that
\* built the list (generate, below) hands over the images it generated; for
\* a list given by ids alone the image is any of Images.
Offered(n) == IF sdf_images = <<>> THEN Images ELSE {sdf_images[n].image}

\* Lines 411-442: one iteration of the loop over the tiles.  The image of
\* tile i is first read here, so its content and native side are drawn here.
PackTile ==
    /\ pc = "loop"
    /\ i < Len(ids)
    /\ \E image \in Offered(i + 1) :
          LET x == TileX(i, grid_size, cell_size, padding)
              y == TileY(i, grid_size, cell_size, padding)
          IN  IF ResizePanics(content_size)
              THEN /\ pc' = "panic"
                   /\ UNCHANGED <<i, positions, atlas>>
              ELSE /\ atlas' = CopyTile(atlas, atlas_size, x, y, content_size,
                                        ResizeExact(image, content_size))
                   /\ positions' = Insert(positions, ids[i + 1],
                                          NewPosition(x, y, content_size, image))
                   /\ i' = i + 1
                   /\ pc' = "loop"
    /\ UNCHANGED <<ids, atlas_size, padding, call, grid_size, cell_size,
                   content_size, prev, fieldVars,
                   genVars, jsonVars,
                   toolVars>>

\* Line 444: Ok((atlas, positions)).
PackReturn ==
    /\ pc = "loop"
    /\ i = Len(ids)
    /\ pc' = "ok"
    /\ UNCHANGED <<ids, atlas_size, padding, call, i, grid_size,
                   cell_size, content_size, positions, atlas, prev, fieldVars,
                   genVars, jsonVars,
                   toolVars>>

\* The caller packs the same ordered tile list again with the same
\* parameters; the images handed over may differ in content and native size.
PackAgain ==
    /\ pc = "ok"
    /\ call = 1
    /\ call' = 2
    /\ prev' = [status |-> pc, positions |-> positions, atlas |-> atlas]
    /\ pc' = "entry"
    /\ UNCHANGED <<ids, atlas_size, padding, i, grid_size, cell_size,
                   content_size, positions, atlas, fieldVars,
                   genVars, jsonVars,
                   toolVars>>

FieldIdle ==
    /\ fn = "none" /\ fpc = "idle"
    /\ width = 0 /\ height = 0 /\ range2 = 0
    /\ mask = EmptyMap /\ k = 0 /\ distance = EmptyMap /\ out = EmptyMap
    /\ msdf = EmptyMap

JsonIdle ==
    /\ reg = EmptyMap /\ texts = <<>> /\ parsed = EmptyMap /\ jpc = "idle"

GenIdle ==
    /\ config = EmptyMap /\ gpc = "idle"
    /\ characters = EmptyMap /\ shapes = EmptyMap
    /\ sdf_images = <<>> /\ result = EmptyMap
    /\ earlier = EmptyMap

CopyIdle == cursor = <<>> /\ writers = EmptyMap

MainIdle == mpc = "idle" /\ files = {}

RegistryIdle ==
    /\ glyph_metrics = EmptyMap
    /\ character_positions = EmptyMap /\ shape_positions = EmptyMap
    /\ registry = EmptyMap

TriangleIdle == tri_input = EmptyMap /\ tri_value = EmptyMap

ToolsIdle == CopyIdle /\ MainIdle /\ RegistryIdle /\ TriangleIdle

\* The tile list of the documented packing scenario (three tiles, atlas 192).
ScenarioIds == <<"A", "B", "C">>

InitPack ==
    /\ \/ /\ ids \in IdLists
          /\ atlas_size \in 0..MaxAtlas
          /\ padding \in 0..MaxPadding
       \/ /\ ids = ScenarioIds
          /\ atlas_size = 192
          /\ padding = 0
    /\ call = 1
    /\ pc = "entry"
    /\ i = 0 /\ grid_size = 0 /\ cell_size = 0 /\ content_size = 0
    /\ positions = EmptyMap
    /\ atlas = EmptyMap
    /\ prev = NoResult
    /\ FieldIdle /\ GenIdle /\ JsonIdle /\ ToolsIdle

NextPack == PackEnter \/ PackTile \/ PackReturn \/ PackAgain

SpecPack == InitPack /\ [][NextPack]_vars

\* One call of pack_atlas on any tile list within the bounds.
InitPackOnce ==
    /\ ids \in IdLists
    /\ atlas_size \in 0..MaxAtlas
    /\ padding \in 0..MaxPadding
    /\ call = 1
    /\ pc = "entry"
    /\ i = 0 /\ grid_size = 0 /\ cell_size = 0 /\ content_size = 0
    /\ positions = EmptyMap
    /\ atlas = EmptyMap
    /\ prev = NoResult
    /\ FieldIdle /\ GenIdle /\ JsonIdle /\ ToolsIdle

NextPackOnce == PackEnter \/ PackTile \/ PackReturn

SpecPackOnce == InitPackOnce /\ [][NextPackOnce]_vars

-----------------------------------------------------------------------------
(* pack_atlas with the copies of lines 427-434 run as concurrent tasks *)

\* Lines 411-416 and 436-441 for every tile, before any pixel is copied: the
\* placements, inserted in the order of the tile list.
Placements(tiles, g, c, p, s) ==
    LET placed[n \in 0..Len(tiles)] ==
            IF n = 0
            THEN EmptyMap
            ELSE Insert(placed[n - 1], tiles[n].id,
                        NewPosition(TileX(n - 1, g, c, p),
                                    TileY(n - 1, g, c, p), s, tiles[n].image))
    IN  placed[Len(tiles)]

\* Lines 427-428: iteration j of the two copy loops of a tile (py is the
\* outer loop, px the inner one) and the atlas pixel it addresses.
CopyTarget(x, y, s, j) == [x |-> x + (j % s), y |-> y + (j \div s)]

\* atlas.put_pixel(x + px, y + py, *source_pixel), line 431.
PutPixel(at, x, y, tone) == [at EXCEPT ![x] = [@ EXCEPT ![y] = tone]]

\* Lines 411-442 as the code runs them: one tile after the other.
SequentialAtlas(tiles, a, g, c, p, s) ==
    LET copied[n \in 0..Len(tiles)] ==
            IF n = 0
            THEN NewAtlas(a)
            ELSE CopyTile(copied[n - 1], a, TileX(n - 1, g, c, p),
                          TileY(n - 1, g, c, p), s,
                          ResizeExact(tiles[n].image, s))
    IN  copied[Len(tiles)]

\* The `images` argument: tiles with distinct ids, tile n toned n so that the
\* atlas shows which tile wrote a pixel last.
TileLists ==
    {[m \in 1..n |-> [id |-> IdNames[m], image |-> [side |-> 1, tone |-> m]]] :
       n \in 0..MaxTiles}

\* All placements are computed (and every tile resized) before the copy
\* tasks start.
PlaceTiles ==
    /\ pc = "loop"
    /\ IF ids # <<>> /\ ResizePanics(content_size)
       THEN /\ pc' = "panic"
            /\ UNCHANGED <<positions, cursor, writers>>
       ELSE /\ positions' = Placements(sdf_images, grid_size, cell_size,
                                       padding, content_size)
            /\ cursor' = [n \in DOMAIN sdf_images |-> 0]
            /\ writers' = [ax \in 0..(atlas_size - 1) |->
                              [ay \in 0..(atlas_size - 1) |-> {}]]
            /\ pc' = "copy"
    /\ UNCHANGED <<ids, atlas_size, padding, call, i, grid_size, cell_size,
                   content_size, atlas, prev, fieldVars, genVars, jsonVars,
                   mainVars, registryVars, triangleVars>>

\* One iteration of the copy loops of tile n, lines 429-433: the bounds
\* check and the write.  Any task that has iterations left may take the
\* next step.
CopyPixel ==
    /\ pc = "copy"
    /\ \E n \in DOMAIN cursor :
          /\ cursor[n] < content_size * content_size
          /\ LET t == CopyTarget(TileX(n - 1, grid_size, cell_size, padding),
                                 TileY(n - 1, grid_size, cell_size, padding),
                                 content_size, cursor[n])
             IN  IF t.x < atlas_size /\ t.y < atlas_size
                 THEN /\ atlas' = PutPixel(atlas, t.x, t.y,
                                           ResizeExact(sdf_images[n].image,
                                                       content_size).tone)
                      /\ writers' = [writers EXCEPT ![t.x] =
                                        [@ EXCEPT ![t.y] = @ \cup {n}]]
                 ELSE UNCHANGED <<atlas, writers>>
          /\ cursor' = [cursor EXCEPT ![n] = @ + 1]
    /\ UNCHANGED <<ids, atlas_size, padding, call, pc, i, grid_size, cell_size,
                   content_size, positions, prev, fieldVars, genVars, jsonVars,
                   mainVars, registryVars, triangleVars>>

\* Every task has finished: Ok((atlas, positions)), line 444.
CopyJoin ==
    /\ pc = "copy"
    /\ \A n \in DOMAIN cursor : cursor[n] = content_size * content_size
    /\ pc' = "ok"
    /\ UNCHANGED <<ids, atlas_size, padding, call, i, grid_size, cell_size,
                   content_size, positions, atlas, prev, fieldVars, genVars,
                   jsonVars, toolVars>>

InitCopy ==
    /\ FieldIdle /\ JsonIdle /\ MainIdle /\ RegistryIdle /\ TriangleIdle
    /\ config = EmptyMap /\ gpc = "idle"
    /\ characters = EmptyMap /\ shapes = EmptyMap
    /\ result = EmptyMap /\ earlier = EmptyMap
    /\ sdf_images \in TileLists
    /\ ids = [n \in DOMAIN sdf_images |-> sdf_images[n].id]
    /\ atlas_size \in 0..MaxAtlas
    /\ padding \in 0..MaxPadding
    /\ call = 1
    /\ pc = "entry"
    /\ i = 0 /\ grid_size = 0 /\ cell_size = 0 /\ content_size = 0
    /\ positions = EmptyMap
    /\ atlas = EmptyMap
    /\ prev = NoResult
    /\ cursor = <<>> /\ writers = EmptyMap

NextCopy == PackEnter \/ PlaceTiles \/ CopyPixel \/ CopyJoin

SpecCopy == InitCopy /\ [][NextCopy]_vars

\* C21: when the placements are computed first and the per-tile copies run
\* as concurrent tasks, whatever the interleaving of their pixel writes, no
\* atlas pixel is written by two different tiles, and the atlas returned is
\* the one the sequential loop produces (so it is the same for every
\* interleaving).
C21_CopiesCommute ==
    /\ \A ax \in DOMAIN writers : \A ay \in DOMAIN writers[ax] :
          Cardinality(writers[ax][ay]) <= 1
    /\ (pc = "ok" /\ cursor # <<>>) =>
          atlas = SequentialAtlas(sdf_images, atlas_size, grid_size,
                                  cell_size, padding, content_size)

\* Three or more tiles have each written several pixels and pack_atlas has
\* returned.
C21_Witness ==
    /\ pc = "ok"
    /\ Len(cursor) >= 3
    /\ \A n \in DOMAIN cursor :
          Cardinality({t \in (DOMAIN writers) \X (DOMAIN writers) :
                         n \in writers[t[1]][t[2]]}) >= 4


-----------------------------------------------------------------------------
(* pack_atlas: the claims *)

\* The grid side and cell size as the specification states them.
StatedGrid(n) == CHOOSE g \in 0..n : g * g >= n /\ \A h \in 0..(g - 1) : h * h < n
StatedCell == atlas_size \div StatedGrid(Len(ids))
StatedRect(n) ==
    LET g == StatedGrid(Len(ids))
        c == StatedCell
    IN  [x |-> (n % g) * c + padding, y |-> (n \div g) * c + padding,
         width |-> c - 2 * padding, height |-> c - 2 * padding]

DistinctIds == \A m, n \in 1..Len(ids) : m # n => ids[m] # ids[n]

RectsDisjoint(r, q) ==
    \/ r.x + r.width <= q.x \/ q.x + q.width <= r.x
    \/ r.y + r.height <= q.y \/ q.y + q.height <= r.y

\* C1: when pack_atlas returns for n >= 1 tiles with cell size c > 2*padding,
\* every placement of the returned map lies inside the atlas:
\* x + width <= atlas_size and y + height <= atlas_size.
C1_PlacementsInsideAtlas ==
    (pc = "ok" /\ Len(ids) >= 1 /\ StatedCell > 2 * padding) =>
        \A id \in DOMAIN positions :
            /\ positions[id].x + positions[id].width <= atlas_size
            /\ positions[id].y + positions[id].height <= atlas_size

C1_Witness ==
    /\ pc = "ok" /\ Len(ids) >= 3 /\ StatedCell > 2 * padding
    /\ atlas_size % grid_size # 0
    /\ \E id \in DOMAIN positions : positions[id].x > 0 /\ positions[id].y > 0

\* C2: when pack_atlas returns for n >= 1 tiles with pairwise distinct ids
\* and content size s > 0, the rectangles of any two distinct tiles share no
\* atlas pixel.
C2_PlacementsDisjoint ==
    (pc = "ok" /\ Len(ids) >= 1 /\ DistinctIds
       /\ StatedCell - 2 * padding > 0) =>
        \A m, n \in 1..Len(ids) :
            m # n => RectsDisjoint(positions[ids[m]], positions[ids[n]])

C2_Witness ==
    /\ pc = "ok" /\ Len(ids) = 4 /\ DistinctIds
    /\ padding = 1 /\ content_size > 0

\* C3: tile i (0-indexed, input order) is placed at x = (i mod g)*c + padding,
\* y = (i div g)*c + padding with width = height = c - 2*padding, g the
\* ceiling of sqrt(n) and c = atlas_size div g: the tile just placed has that
\* rectangle, the returned map gives it to every id (to the id's last tile
\* when an id repeats), and tiles A, B, C with atlas_size 192 and padding 0
\* get A=(0,0,96,96), B=(96,0,96,96), C=(0,96,96,96).
C3_RowMajorPlacement ==
    /\ (pc = "loop" /\ i >= 1) => positions[ids[i]] = StatedRect(i - 1)
    /\ pc = "ok" =>
          \A n \in 1..Len(ids) :
              (\A m \in (n + 1)..Len(ids) : ids[m] # ids[n]) =>
                  positions[ids[n]] = StatedRect(n - 1)
    /\ (pc = "ok" /\ ids = ScenarioIds /\ atlas_size = 192 /\ padding = 0) =>
          positions = [id \in {"A", "B", "C"} |->
                         CASE id = "A" -> [x |-> 0, y |-> 0, width |-> 96, height |-> 96]
                           [] id = "B" -> [x |-> 96, y |-> 0, width |-> 96, height |-> 96]
                           [] id = "C" -> [x |-> 0, y |-> 96, width |-> 96, height |-> 96]]

C3_Witness ==
    /\ pc = "ok" /\ ids = ScenarioIds /\ atlas_size = 192 /\ padding = 0
    /\ positions["C"] = [x |-> 0, y |-> 96, width |-> 96, height |-> 96]
    /\ atlas[0][96] # 0 /\ atlas[96][96] = 0

\* C4: a second call of pack_atlas with the same ordered ids, atlas_size and
\* padding returns the placement map the first call returned, whatever the
\* content and native size of the images handed to either call.
C4_PlacementsDeterministic ==
    (call = 2 /\ pc = "ok") =>
        /\ prev.status = "ok"
        /\ positions = prev.positions

C4_Witness ==
    /\ call = 2 /\ pc = "ok" /\ Len(ids) >= 2 /\ content_size > 0
    /\ atlas # prev.atlas
    /\ positions = prev.positions

\* C5: pack_atlas called with zero tiles returns successfully with an empty
\* placement map and an all-background atlas; it does not abort.
C5_EmptyInputReturnsEmptyAtlas ==
    (Len(ids) = 0 /\ pc # "entry") =>
        /\ pc \in {"loop", "ok"}
        /\ positions = EmptyMap
        /\ atlas = NewAtlas(atlas_size)

\* C6: when the cell size c is <= 2*padding, pack_atlas ends in an
\* AtlasOverflow error value: it neither returns placements (of width 0 or
\* of wrapped width) nor aborts.
C6_OverflowIsReported ==
    (Len(ids) >= 1 /\ StatedCell <= 2 * padding /\ pc \notin {"entry", "loop"}) =>
        pc = "AtlasOverflow"

\* C7: the key set of the returned placement map is exactly the set of ids
\* passed in, and when the ids are pairwise distinct the map has one entry
\* per input tile.
C7_IdsPreserved ==
    pc = "ok" =>
        /\ DOMAIN positions = SetOfSeq(ids)
        /\ DistinctIds => Cardinality(DOMAIN positions) = Len(ids)

C7_Witness ==
    /\ pc = "ok" /\ Len(ids) >= 3
    /\ Cardinality(DOMAIN positions) = 2


InRect(ax, ay, r) ==
    /\ ax >= r.x /\ ax < r.x + r.width
    /\ ay >= r.y /\ ay < r.y + r.height

\* C20 as stated: after a successful pack_atlas every atlas pixel outside all
\* returned placement rectangles still holds the background value zero.
C20_BackgroundOutsidePlacements ==
    pc = "ok" =>
        \A ax \in DOMAIN atlas : \A ay \in DOMAIN atlas[ax] :
            (\A id \in DOMAIN positions : ~InRect(ax, ay, positions[id]))
            => atlas[ax][ay] = 0

\* C20, amended: copying a tile writes only pixels inside the placement
\* rectangle of that tile, so at every point of the loop a pixel that is not
\* background lies in the rectangle of a tile copied so far; and after a
\* successful pack_atlas on pairwise distinct ids every atlas pixel outside
\* all returned placement rectangles holds the background value zero.
C20_WritesOnlyInsidePlacements ==
    pc \in {"loop", "ok"} =>
        LET copied == {StatedRect(n) : n \in 0..(i - 1)}
            returned == {positions[id] : id \in DOMAIN positions}
            distinct == pc = "ok" /\ DistinctIds
        IN  \A ax \in DOMAIN atlas : \A ay \in DOMAIN atlas[ax] :
                atlas[ax][ay] # 0 =>
                    /\ \E r \in copied : InRect(ax, ay, r)
                    /\ distinct => \E r \in returned : InRect(ax, ay, r)

\* Three distinct tiles have been packed with padding: some pixels are
\* written, and the padding and the empty fourth cell are background.
C20_Witness ==
    /\ pc = "ok" /\ call = 1 /\ Len(ids) = 3 /\ DistinctIds
    /\ atlas_size = 6 /\ padding = 1
    /\ atlas[1][1] # 0 /\ atlas[0][0] = 0 /\ atlas[4][4] = 0

-----------------------------------------------------------------------------
(* Distance values and their 8-bit encoding *)

\* A distance is the real number (a + b*sqrt(q)) / den, den > 0.
Dist(a, b, q, den) == [a |-> a, b |-> b, q |-> q, den |-> den]

RECURSIVE GCD(_, _)
GCD(m, n) == IF n = 0 THEN m ELSE GCD(n, m % n)

\* The integer square root, by bisection on lo*lo <= n < hi*hi.
RECURSIVE ISqrtIn(_, _, _)
ISqrtIn(n, lo, hi) ==
    IF hi - lo <= 1 THEN lo
    ELSE LET mid == (lo + hi) \div 2
         IN  IF mid * mid <= n THEN ISqrtIn(n, mid, hi) ELSE ISqrtIn(n, lo, mid)

ISqrtFloor(n) == ISqrtIn(n, 0, Min(n + 1, 46341))
ISqrtCeil(n) == LET r == ISqrtFloor(n) IN IF r * r = n THEN r ELSE r + 1

\* d1 <= d2 for two distances with the same rational part and denominator.
DistLeq(d1, d2) ==
    LET t1 == d1.b * d1.b * d1.q
        t2 == d2.b * d2.b * d2.q
    IN  /\ d1.a = d2.a /\ d1.den = d2.den
        /\ CASE d1.b < 0 /\ d2.b < 0 -> t1 >= t2
             [] d1.b < 0 /\ d2.b >= 0 -> TRUE
             [] d1.b >= 0 /\ d2.b < 0 -> t1 = 0 /\ t2 = 0
             [] OTHER -> t1 <= t2

DistNegative(d) == d.a = 0 /\ d.b < 0 /\ d.q > 0
DistPositive(d) == d.a = 0 /\ d.b > 0 /\ d.q > 0

\* -d, lines 91-92.
DistNeg(d) == Dist(-d.a, -d.b, d.q, d.den)

\* (distance / range + 1.0) * 0.5 * 255.0 in exact arithmetic, as the fraction
\* (c + sc*sqrt(q)) / dn in lowest terms: its floor, and whether it is an
\* integer.
Scaled(d, r2) ==
    LET c0 == 255 * (d.den * r2 + 2 * d.a)
        sc0 == 510 * d.b
        dn0 == 2 * d.den * r2
        g == GCD(GCD(Abs(c0), Abs(sc0)), dn0)
        c == c0 \div g
        sc == sc0 \div g
        dn == dn0 \div g
        n == sc * sc * d.q
        root == IF sc >= 0 THEN ISqrtFloor(n) ELSE ISqrtCeil(n)
        num == IF sc >= 0 THEN c + root ELSE c - root
    IN  [floor |-> num \div dn,
         integral |-> root * root = n /\ num % dn = 0]

\* The distance is the f32 value of range itself, up to sign: the quotient
\* distance / range is then exactly +1 or -1 and no step of the encoding rounds.
Saturated(d, r2) == d.a = 0 /\ d.den = 2 /\ d.b \in {-1, 1} /\ d.q = r2 * r2


\* An encoding that divides by the search radius ceil(range) instead of range.
NormalizedByRadius(d, r2) ==
    LET e == Scaled(d, 2 * ((r2 + 1) \div 2))
    IN  {Min(Max(e.floor, 0), 255)}

\* ((distance / range + 1.0) * 0.5 * 255.0).clamp(0.0, 255.0) as u8,
\* lines 33 and 138.  The f32 operations round: where the exact value is an
\* integer v, the f32 value may fall just below it and truncate to v - 1.
\* Both results are kept as possible outcomes.
Normalized(d, r2) ==
    LET e == Scaled(d, r2)
    IN  IF e.integral /\ ~Saturated(d, r2) /\ e.floor >= 1 /\ e.floor <= 255
        THEN {e.floor - 1, e.floor}
        ELSE {Min(Max(e.floor, 0), 255)}

\* Equal distances are encoded by the same computation, hence equally.
Consistent(dist, img, d, v) ==
    \A p \in DOMAIN dist : dist[p] = d => img[p] = v

Pixels(w, h) == (0..(w - 1)) \X (0..(h - 1))

-----------------------------------------------------------------------------
(* generate_sdf_from_mask and calculate_distance_to_edge: lines 21-96 *)

\* current_pixel > 128, lines 67 and 81.
IsInside(v) == v > 128

\* max_range.ceil() as i32, line 70.
SearchRadius(r2) == (r2 + 1) \div 2


\* A minimum that starts at the search radius instead of max_range.
InitialMinSqRadius(r2) == 4 * SearchRadius(r2) * SearchRadius(r2)

\* Line 69: min_distance starts at max_range (squared, in quarter pixels).
InitialMinSq(r2) == r2 * r2

\* A search that takes every position past the image edge for an outside
\* pixel.
BoundarySqsPastEdge(m, w, h, x, y, r2) ==
    LET R == SearchRadius(r2)
    IN  {4 * (dx * dx + dy * dy) :
            <<dx, dy>> \in {v \in (-R..R) \X (-R..R) :
                IsInside(m[<<x, y>>]) #
                   (/\ x + v[1] >= 0 /\ x + v[1] < w
                    /\ y + v[2] >= 0 /\ y + v[2] < h
                    /\ IsInside(m[<<x + v[1], y + v[2]>>]))}}

\* A search that takes the pixel itself for a boundary pixel.
BoundarySqsWithSelf(m, w, h, x, y, r2) ==
    LET R == SearchRadius(r2)
    IN  {4 * (dx * dx + dy * dy) :
            <<dx, dy>> \in {v \in (-R..R) \X (-R..R) :
                /\ x + v[1] >= 0 /\ x + v[1] < w
                /\ y + v[2] >= 0 /\ y + v[2] < h
                /\ \/ v = <<0, 0>>
                   \/ IsInside(m[<<x, y>>]) # IsInside(m[<<x + v[1], y + v[2]>>])}}

\* Lines 72-89: the squared distances (in quarter pixels) to the in-bounds
\* neighbours within the search square whose classification differs.
BoundarySqs(m, w, h, x, y, r2) ==
    LET R == SearchRadius(r2)
    IN  {4 * (dx * dx + dy * dy) :
            <<dx, dy>> \in {v \in (-R..R) \X (-R..R) :
                /\ x + v[1] >= 0 /\ x + v[1] < w
                /\ y + v[2] >= 0 /\ y + v[2] < h
                /\ IsInside(m[<<x, y>>]) # IsInside(m[<<x + v[1], y + v[2]>>])}}

SetMin(S) == CHOOSE v \in S : \A u \in S : v <= u

\* A result that is the unsigned distance.
SignedDistanceOutward(is_inside, sq) == Dist(0, 1, sq, 2)

\* Lines 91-95: the sign of the result.
SignedDistance(is_inside, sq) ==
    IF is_inside THEN DistNeg(Dist(0, 1, sq, 2)) ELSE Dist(0, 1, sq, 2)

\* calculate_distance_to_edge(mask, x, y, max_range), lines 64-96.
CalculateDistanceToEdge(m, w, h, x, y, r2) ==
    SignedDistance(IsInside(m[<<x, y>>]),
                   SetMin({InitialMinSq(r2)} \cup BoundarySqs(m, w, h, x, y, r2)))

PackIdle ==
    /\ ids = <<>> /\ atlas_size = 0 /\ padding = 0 /\ call = 1 /\ pc = "idle"
    /\ i = 0 /\ grid_size = 0 /\ cell_size = 0 /\ content_size = 0
    /\ positions = EmptyMap /\ atlas = EmptyMap /\ prev = NoResult

\* Mask pixels take two levels, one on each side of the threshold.
MaskLevels == {<<0, 255>>, <<128, 129>>}

Masks(w, h) ==
    {[p \in Pixels(w, h) |-> lv[1 + bits[p]]] :
        bits \in [Pixels(w, h) -> {0, 1}], lv \in MaskLevels}

\* The masks of at most MaxPixels pixels with every range up to MaxRange2
\* half pixels, the documented scenario (a filled mask with range 4), and a
\* two-pixel mask under a range of 256 pixels.
InitSdf ==
    /\ PackIdle /\ GenIdle /\ JsonIdle /\ ToolsIdle
    /\ fn = "sdf" /\ fpc = "loop"
    /\ \/ /\ width \in 0..MaxPixels
          /\ height \in 0..MaxPixels
          /\ width * height <= MaxPixels
          /\ range2 \in 1..MaxRange2
          /\ mask \in Masks(width, height)
       \/ /\ width = 3 /\ height = 2
          /\ range2 = 8
          /\ mask = [p \in Pixels(3, 2) |-> 255]
       \/ /\ width = 2 /\ height = 1
          /\ range2 = 512
          /\ mask = [p \in Pixels(2, 1) |-> IF p[1] = 0 THEN 0 ELSE 255]
    /\ k = 0 /\ distance = EmptyMap /\ out = EmptyMap /\ msdf = EmptyMap

\* Lines 30-36: one iteration of the pixel loops (y outer, x inner).
SdfPixel ==
    /\ fn \in {"sdf", "msdf"} /\ fpc = "loop"
    /\ k < width * height
    /\ LET x == k % width
           y == k \div width
           d == CalculateDistanceToEdge(mask, width, height, x, y, range2)
       IN  /\ distance' = [p \in DOMAIN distance \cup {<<x, y>>} |->
                             IF p = <<x, y>> THEN d ELSE distance[p]]
           /\ \E v \in Normalized(d, range2) :
                 /\ Consistent(distance, out, d, v)
                 /\ out' = [p \in DOMAIN out \cup {<<x, y>>} |->
                              IF p = <<x, y>> THEN v ELSE out[p]]
    /\ k' = k + 1
    /\ UNCHANGED <<fn, fpc, width, height, range2, mask, msdf,
                   packVars, genVars, jsonVars,
                   toolVars>>

\* Line 38: Ok(sdf).
SdfReturn ==
    /\ fn = "sdf" /\ fpc = "loop"
    /\ k = width * height
    /\ fpc' = "ok"
    /\ UNCHANGED <<fn, width, height, range2, mask, k, distance, out,
                   msdf, packVars, genVars, jsonVars,
                   toolVars>>

NextSdf == SdfPixel \/ SdfReturn

SpecSdf == InitSdf /\ [][NextSdf]_vars

-----------------------------------------------------------------------------
(* generate_msdf_from_mask: lines 42-60 *)

\* A pixel whose second channel is inverted.
RgbInverted(gray) == <<gray, 255 - gray, gray>>

\* image::Rgb([gray, gray, gray]), line 55.
Rgb(gray) == <<gray, gray, gray>>

\* The same masks and ranges as for generate_sdf_from_mask.
InitMsdf ==
    /\ PackIdle /\ GenIdle /\ JsonIdle /\ ToolsIdle
    /\ fn = "msdf" /\ fpc = "loop"
    /\ \/ /\ width \in 0..MaxPixels
          /\ height \in 0..MaxPixels
          /\ width * height <= MaxPixels
          /\ range2 \in 1..MaxRange2
          /\ mask \in Masks(width, height)
       \/ /\ width = 3 /\ height = 2
          /\ range2 = 8
          /\ mask = [p \in Pixels(3, 2) |-> 255]
    /\ k = 0 /\ distance = EmptyMap /\ out = EmptyMap /\ msdf = EmptyMap

\* Lines 48-50: generate_sdf_from_mask (SdfPixel runs its loop) has returned
\* `sdf`; the RgbImage of its dimensions is created.
MsdfInner ==
    /\ fn = "msdf" /\ fpc = "loop"
    /\ k = width * height
    /\ fpc' = "rgb"
    /\ k' = 0
    /\ msdf' = EmptyMap
    /\ UNCHANGED <<fn, width, height, range2, mask, distance, out,
                   packVars, genVars, jsonVars,
                   toolVars>>

\* Lines 52-57: one iteration of the copy loops.
MsdfPixel ==
    /\ fn = "msdf" /\ fpc = "rgb"
    /\ k < width * height
    /\ LET x == k % width
           y == k \div width
           gray == out[<<x, y>>]
       IN  msdf' = [p \in DOMAIN msdf \cup {<<x, y>>} |->
                      IF p = <<x, y>> THEN Rgb(gray) ELSE msdf[p]]
    /\ k' = k + 1
    /\ UNCHANGED <<fn, fpc, width, height, range2, mask, distance, out,
                   packVars, genVars, jsonVars,
                   toolVars>>

\* Line 59: Ok(msdf).
MsdfReturn ==
    /\ fn = "msdf" /\ fpc = "rgb"
    /\ k = width * height
    /\ fpc' = "ok"
    /\ UNCHANGED <<fn, width, height, range2, mask, k, distance, out, msdf,
                   packVars, genVars, jsonVars,
                   toolVars>>

NextMsdf == SdfPixel \/ MsdfInner \/ MsdfPixel \/ MsdfReturn

SpecMsdf == InitMsdf /\ [][NextMsdf]_vars

-----------------------------------------------------------------------------
(* generate_circle_sdf: lines 126-145 *)


\* The circle distance with its sign reversed: radius - length(p).
CircleDistanceReversed(size, x, y) ==
    Dist(4 * size, -5,
         (2 * x - size) * (2 * x - size) + (2 * y - size) * (2 * y - size), 10)

\* Lines 128-137: with center = size / 2 and radius = center * 0.8,
\* sqrt(px*px + py*py) - radius = (5*sqrt((2x-size)^2 + (2y-size)^2) - 4*size) / 10.
CircleDistance(size, x, y) ==
    Dist(-4 * size, 5,
         (2 * x - size) * (2 * x - size) + (2 * y - size) * (2 * y - size), 10)

InitCircle ==
    /\ PackIdle /\ GenIdle /\ JsonIdle /\ ToolsIdle
    /\ fn = "circle" /\ fpc = "loop"
    /\ width \in 0..MaxSize
    /\ height = width
    /\ range2 \in 1..MaxRange2
    /\ mask = EmptyMap
    /\ k = 0 /\ distance = EmptyMap /\ out = EmptyMap /\ msdf = EmptyMap

\* Lines 131-142: one iteration of the pixel loops.
CirclePixel ==
    /\ fn = "circle" /\ fpc = "loop"
    /\ k < width * height
    /\ LET x == k % width
           y == k \div width
           d == CircleDistance(width, x, y)
       IN  /\ distance' = [p \in DOMAIN distance \cup {<<x, y>>} |->
                             IF p = <<x, y>> THEN d ELSE distance[p]]
           /\ \E v \in Normalized(d, range2) :
                 /\ Consistent(distance, out, d, v)
                 /\ out' = [p \in DOMAIN out \cup {<<x, y>>} |->
                              IF p = <<x, y>> THEN v ELSE out[p]]
    /\ k' = k + 1
    /\ UNCHANGED <<fn, fpc, width, height, range2, mask, msdf,
                   packVars, genVars, jsonVars,
                   toolVars>>

\* Line 144: Ok(image).
CircleReturn ==
    /\ fn = "circle" /\ fpc = "loop"
    /\ k = width * height
    /\ fpc' = "ok"
    /\ UNCHANGED <<fn, width, height, range2, mask, k, distance, out,
                   msdf, packVars, genVars, jsonVars,
                   toolVars>>

NextCircle == CirclePixel \/ CircleReturn

SpecCircle == InitCircle /\ [][NextCircle]_vars


-----------------------------------------------------------------------------
(* Distance fields: the claims *)

HasInside == \E p \in DOMAIN mask : IsInside(mask[p])
HasOutside == \E p \in DOMAIN mask : ~IsInside(mask[p])

\* C8: for a mask with at least one inside pixel (value > 128) and one outside
\* pixel, the distance computed for each pixel is negative iff the pixel is
\* inside, positive iff it is outside, and of absolute value <= range.
C8_SignMatchesMembership ==
    (fn = "sdf" /\ HasInside /\ HasOutside) =>
        \A p \in DOMAIN distance :
            /\ DistNegative(distance[p]) <=> IsInside(mask[p])
            /\ DistPositive(distance[p]) <=> ~IsInside(mask[p])
            /\ distance[p].den = 2 /\ distance[p].b \in {-1, 1}
            /\ distance[p].q <= range2 * range2

C8_Witness ==
    /\ fn = "sdf" /\ fpc = "ok" /\ HasInside /\ HasOutside
    /\ \E p \in DOMAIN distance :
          IsInside(mask[p]) /\ distance[p].q < range2 * range2
    /\ \E p \in DOMAIN distance :
          ~IsInside(mask[p]) /\ distance[p].q = range2 * range2
    /\ \E p \in DOMAIN distance :
          BoundarySqs(mask, width, height, p[1], p[2], range2) # {}
          /\ SetMin(BoundarySqs(mask, width, height, p[1], p[2], range2))
                > range2 * range2

\* C9: for a mask whose pixels all have the same classification, every pixel
\* saturates at the signed range: distance -range encoded as 0 when the mask
\* is all-interior, distance +range encoded as 255 when it is all-exterior,
\* and the call returns normally.
C9_UniformMaskSaturates ==
    (fn = "sdf" /\ ~(HasInside /\ HasOutside)) =>
        /\ \A p \in DOMAIN distance :
              IF IsInside(mask[p])
              THEN distance[p] = Dist(0, -1, range2 * range2, 2) /\ out[p] = 0
              ELSE distance[p] = Dist(0, 1, range2 * range2, 2) /\ out[p] = 255
        /\ fpc \in {"loop", "ok"}
        /\ fpc = "ok" => DOMAIN out = Pixels(width, height)

C9_Witness ==
    /\ fn = "sdf" /\ fpc = "ok" /\ HasInside /\ ~HasOutside
    /\ width = 3 /\ height = 2 /\ range2 = 8
    /\ \A p \in Pixels(width, height) :
          distance[p] = Dist(0, -1, 64, 2) /\ out[p] = 0

\* C10: the value generate_circle_sdf produces at the centre pixel
\* (size div 2, size div 2) is the minimum over all pixels of the field, as a
\* distance and as an encoded value.
C10_CircleCenterIsMinimum ==
    (fn = "circle" /\ fpc = "ok" /\ width > 0) =>
        LET c == <<width \div 2, width \div 2>>
        IN  \A p \in Pixels(width, height) :
                /\ DistLeq(distance[c], distance[p])
                /\ out[c] <= out[p]

C10_Witness ==
    /\ fn = "circle" /\ fpc = "ok" /\ width = 5
    /\ out[<<2, 2>>] < out[<<0, 0>>]
    /\ out[<<2, 2>>] = out[<<3, 3>>]


\* C15: a zero-sized input (mask width or height 0, shape size 0) and a
\* non-positive range are rejected at the call: no field is returned.
C15_ZeroSizeRejected ==
    (fn \in {"sdf", "circle"} /\ (width = 0 \/ height = 0 \/ range2 <= 0))
    => fpc # "ok"

Least(S) == CHOOSE v \in S : \A u \in S : v <= u

\* The in-image pixels within the square of radius ceil(range) around p whose
\* classification differs from p's.
DifferingNear(p) ==
    LET R == CHOOSE n \in 0..range2 : 2 * n >= range2 /\ 2 * (n - 1) < range2
    IN  {q \in DOMAIN mask :
            /\ Abs(q[1] - p[1]) <= R /\ Abs(q[2] - p[2]) <= R
            /\ IsInside(mask[q]) # IsInside(mask[p])}

\* C18: for every pixel p, calculate_distance_to_edge returns
\* sign(p) * min(range, m), sign(p) = -1 for an inside pixel and +1 for an
\* outside one, m the least Euclidean distance from p to an in-image pixel of
\* the other classification within the square of radius ceil(range) (infinite
\* if there is none); positions outside the image never count.
C18_DistanceIsClampedNearestDiffering ==
    fn \in {"sdf", "msdf"} =>
        \A p \in DOMAIN distance :
            LET d == distance[p]
                msq == Least({range2 * range2}
                             \cup {4 * ((q[1] - p[1]) * (q[1] - p[1])
                                        + (q[2] - p[2]) * (q[2] - p[2])) :
                                     q \in DifferingNear(p)})
            IN  /\ d.a = 0 /\ d.den = 2 /\ d.q = msq
                /\ d.b = IF IsInside(mask[p]) THEN -1 ELSE 1

\* A whole field in which one pixel has a differing pixel nearer than the
\* range and another, at the image edge, has none within its search square.
C18_Witness ==
    /\ fn = "sdf" /\ fpc = "ok" /\ width = 6 /\ height = 1 /\ range2 = 4
    /\ distance[<<4, 0>>].q = 4
    /\ distance[<<0, 0>>].q = 16

\* A binary mask and its complement.
Binary(m) == \A p \in DOMAIN m : m[p] \in {0, 255}
Complement(m) == [p \in DOMAIN m |-> 255 - m[p]]

\* C28: for every binary mask (values 0 or 255) and every range > 0,
\* complementing the mask negates the field: calculate_distance_to_edge on
\* the complemented mask returns at every pixel exactly the negation of the
\* distance it returns on the original mask.
C28_ComplementNegates ==
    (fn = "sdf" /\ Binary(mask) /\ range2 > 0) =>
        \A p \in DOMAIN distance :
            CalculateDistanceToEdge(Complement(mask), width, height,
                                    p[1], p[2], range2)
              = DistNeg(distance[p])

\* The whole field of a binary mask with pixels of both classifications, some
\* of them nearer to the other classification than the range and some not.
C28_Witness ==
    /\ fn = "sdf" /\ fpc = "ok" /\ Binary(mask) /\ HasInside /\ HasOutside
    /\ width * height = MaxPixels
    /\ \E p \in DOMAIN distance : distance[p].q < range2 * range2
    /\ \E p \in DOMAIN distance :
          distance[p].q = range2 * range2
          /\ BoundarySqs(mask, width, height, p[1], p[2], range2) = {}

\* C29: for every mask and every range > 0, no pixel of the computed field
\* has distance 0: every distance has absolute value >= min(1, range), the
\* nearest pixel of the other classification being at least one pixel away.
C29_NoZeroDistance ==
    (fn = "sdf" /\ range2 > 0) =>
        \A p \in DOMAIN distance :
            LET d == distance[p]
            IN  /\ d.a = 0 /\ d.den = 2 /\ d.b \in {-1, 1}
                /\ d.q >= Min(4, range2 * range2)

\* A whole field with a pixel at distance exactly 1 under a range above 1,
\* and one with a pixel at the range under a range below 1.
C29_Witness ==
    /\ fn = "sdf" /\ fpc = "ok" /\ HasInside /\ HasOutside
    /\ \/ range2 > 2 /\ \E p \in DOMAIN distance : distance[p].q = 4
       \/ range2 = 1 /\ \E p \in DOMAIN distance : distance[p].q = 1

\* C30: for every mask and every range >= 1, the 8-bit value
\* generate_sdf_from_mask writes for any inside pixel is strictly smaller than
\* the value it writes for any outside pixel, so that thresholding the
\* encoded field at its midpoint recovers the classification of the mask.
C30_InsideEncodedBelowOutside ==
    (fn = "sdf" /\ range2 >= 2) =>
        \A p, q \in DOMAIN out :
            (IsInside(mask[p]) /\ ~IsInside(mask[q])) =>
                /\ out[p] < out[q]
                /\ out[p] <= 127 /\ out[q] >= 128

\* C19: generate_msdf_from_mask returns an image of the mask's width and
\* height in which the three channels of every pixel are equal to each other
\* and to the value generate_sdf_from_mask gave for that pixel.
C19_MsdfReplicatesSdf ==
    (fn = "msdf" /\ fpc \in {"rgb", "ok"}) =>
        /\ fpc = "ok" => DOMAIN msdf = Pixels(width, height)
        /\ \A p \in DOMAIN msdf :
              /\ msdf[p][1] = msdf[p][2] /\ msdf[p][2] = msdf[p][3]
              /\ msdf[p][1] = out[p]
              /\ out[p] \in Normalized(
                    CalculateDistanceToEdge(mask, width, height, p[1], p[2], range2),
                    range2)

\* An MSDF with two different values has been returned.
C19_Witness ==
    /\ fn = "msdf" /\ fpc = "ok" /\ width * height >= 2
    /\ \E p, q \in DOMAIN msdf : msdf[p] # msdf[q]

-----------------------------------------------------------------------------
(* SdfGenerator::generate: script_2.py lines 200-293, with                  *)
(* generate_character_sdfs (script_3.py 262-310) and generate_basic_shapes  *)
(* (script_3.py 104-123)                                                    *)

\* The characters a request is written in.
Alphabet == {"a", "b"}

\* The font file behind config.font_path: no path given, a path that cannot
\* be read, bytes that Face::parse rejects, or a face with some glyphs.
Fonts ==
    {[state |-> st, glyphs |-> {}] : st \in {"none", "unreadable", "unparsable"}}
    \cup {[state |-> "face", glyphs |-> G] : G \in SUBSET Alphabet}

\* The face's metrics in font units, with units_per_em = 1: the horizontal
\* advance of a glyph, and x_min and y_max of its bounding box.
GlyphAdvance(ch) == IF ch = "a" THEN 1 ELSE 2
GlyphXMin(ch) == 0
GlyphYMax(ch) == 1

Configs ==
    [font : Fonts,
     characters : UNION {[1..n -> Alphabet] : n \in 0..MaxChars},
     sdf_size : 1..MaxSdfSize,
     atlas_size : 0..MaxAtlas,
     padding : 0..MaxPadding,
     include_shapes : BOOLEAN]

\* The orders in which a HashMap may yield its keys: every enumeration of the
\* key set (the order depends on the map's random hasher state).
RECURSIVE IterationOrders(_)
IterationOrders(S) ==
    IF S = {}
    THEN {<<>>}
    ELSE UNION {{<<e>> \o rest : rest \in IterationOrders(S \ {e})} : e \in S}

\* A string that starts with a known prefix is kept as the sequence of its
\* pieces: <<"char_", "a">> is "char_a", and <<"shape_", "circle">> is
\* "shape_circle".  format!("char_{}", ch) and format!("shape_{}", name),
\* lines 227 and 246.
FormatChar(ch) == <<"char_", ch>>
FormatShape(name) == <<"shape_", name>>

\* str::strip_prefix: the rest of the string behind the prefix, if it has it.
StripPrefix(id, prefix) ==
    IF Len(id) >= 1 /\ id[1] = prefix
    THEN [some |-> TRUE, rest |-> Tail(id)]
    ELSE [some |-> FALSE, rest |-> <<>>]

\* A character SDF for every requested character, glyph or no glyph.
CharacterSdfsOfRequest(cfg) ==
    [ch \in SetOfSeq(cfg.characters) |->
        [image |-> [side |-> cfg.sdf_size, tone |-> 1],
         width |-> cfg.sdf_size,
         height |-> cfg.sdf_size,
         advance |-> GlyphAdvance(ch) * cfg.sdf_size,
         bearing_x |-> GlyphXMin(ch) * cfg.sdf_size,
         bearing_y |-> GlyphYMax(ch) * cfg.sdf_size]]

\* script_3.py lines 271-306: the characters of the request that the face has
\* a glyph for, each once (results is a HashMap keyed by the character).
CharacterSdfs(cfg) ==
    [ch \in SetOfSeq(cfg.characters) \cap cfg.font.glyphs |->
        [image |-> [side |-> cfg.sdf_size, tone |-> 1],
         width |-> cfg.sdf_size,
         height |-> cfg.sdf_size,
         advance |-> GlyphAdvance(ch) * cfg.sdf_size,
         bearing_x |-> GlyphXMin(ch) * cfg.sdf_size,
         bearing_y |-> GlyphYMax(ch) * cfg.sdf_size]]

\* Lines 217-225: the CharacterInfo built from a CharacterSdf.
NewCharacterInfo(sdf_data) ==
    [x |-> 0, y |-> 0,
     width |-> sdf_data.width, height |-> sdf_data.height,
     advance |-> sdf_data.advance,
     bearing_x |-> sdf_data.bearing_x, bearing_y |-> sdf_data.bearing_y]

\* A ShapeInfo sized by the tile side less the padding on both sides.
NewShapeInfoInset(cfg) ==
    [x |-> 0, y |-> 0,
     width |-> cfg.sdf_size - 2 * cfg.padding,
     height |-> cfg.sdf_size - 2 * cfg.padding]

\* Lines 239-244: the ShapeInfo built for a shape.
NewShapeInfo(cfg) ==
    [x |-> 0, y |-> 0, width |-> cfg.sdf_size, height |-> cfg.sdf_size]

\* script_3.py lines 108-120: the three shapes generate_basic_shapes makes.
BasicShapes == {"circle", "triangle", "square"}

\* Lines 204-229: the font is read and parsed, and every character SDF gets
\* a registry entry and a tile, in the iteration order of the HashMap that
\* generate_character_sdfs returned.
GenCharacters ==
    /\ gpc = "start"
    /\ CASE config.font.state = "none" ->
              /\ gpc' = "shapes"
              /\ UNCHANGED <<characters, sdf_images>>
         [] config.font.state \in {"unreadable", "unparsable"} ->
              /\ gpc' = "err"
              /\ UNCHANGED <<characters, sdf_images>>
         [] OTHER ->
              LET character_sdfs == CharacterSdfs(config)
              IN  /\ characters' = [ch \in DOMAIN character_sdfs |->
                                      NewCharacterInfo(character_sdfs[ch])]
                  /\ \E order \in IterationOrders(DOMAIN character_sdfs) :
                        sdf_images' =
                          [n \in DOMAIN order |->
                             [id |-> FormatChar(order[n]),
                              image |-> character_sdfs[order[n]].image]]
                  /\ gpc' = "shapes"
    /\ UNCHANGED <<config, shapes, result, packVars, fieldVars, jsonVars,
                   earlier, toolVars>>

\* Lines 231-248: the shapes, in the iteration order of the HashMap that
\* generate_basic_shapes returned.
GenShapes ==
    /\ gpc = "shapes"
    /\ IF config.include_shapes
       THEN /\ shapes' = [name \in BasicShapes |-> NewShapeInfo(config)]
            /\ \E order \in IterationOrders(BasicShapes) :
                  sdf_images' =
                    sdf_images \o
                    [n \in DOMAIN order |->
                       [id |-> FormatShape(order[n]),
                        image |-> [side |-> config.sdf_size, tone |-> 2]]]
       ELSE UNCHANGED <<shapes, sdf_images>>
    /\ gpc' = "pack"
    /\ UNCHANGED <<config, characters, result, packVars, fieldVars, jsonVars,
                   earlier, toolVars>>

\* Lines 250-255: the call of pack_atlas; PackEnter, PackTile and PackReturn
\* run it.
GenPack ==
    /\ gpc = "pack"
    /\ ids' = [n \in DOMAIN sdf_images |-> sdf_images[n].id]
    /\ atlas_size' = config.atlas_size
    /\ padding' = config.padding
    /\ pc' = "entry"
    /\ gpc' = "packing"
    /\ UNCHANGED <<call, i, grid_size, cell_size, content_size, positions,
                   atlas, prev, config, characters, shapes, sdf_images,
                   result, fieldVars, jsonVars,
                   earlier, toolVars>>

\* An update that assigns the column and leaves the placeholder row.
SetOriginColumnOnly(m, key, pos) ==
    IF key \in DOMAIN m
    THEN [m EXCEPT ![key] = [@ EXCEPT !.x = pos.x]]
    ELSE m

\* get_mut(key) followed by the two assignments of lines 261-263 and 267-269;
\* nothing happens when the key is absent.
SetOrigin(m, key, pos) ==
    IF key \in DOMAIN m
    THEN [m EXCEPT ![key] = [@ EXCEPT !.x = pos.x, !.y = pos.y]]
    ELSE m

\* Lines 259-271: the body of the position loop for one (id, pos).
UpdateOrigin(r, id, pos) ==
    LET as_char == StripPrefix(id, "char_")
        as_shape == StripPrefix(id, "shape_")
    IN  IF as_char.some
        THEN IF as_char.rest # <<>>
             THEN [r EXCEPT !.characters =
                               SetOrigin(@, Head(as_char.rest), pos)]
             ELSE r
        ELSE IF as_shape.some /\ Len(as_shape.rest) = 1
             THEN [r EXCEPT !.shapes = SetOrigin(@, as_shape.rest[1], pos)]
             ELSE r

\* Lines 257-272: the loop over the placements in the given order.
RECURSIVE UpdateOrigins(_, _, _)
UpdateOrigins(r, placed, order) ==
    IF order = <<>>
    THEN r
    ELSE UpdateOrigins(UpdateOrigin(r, Head(order), placed[Head(order)]),
                       placed, Tail(order))

\* Lines 256-272: pack_atlas has returned Ok; the loop runs over the
\* placements in the iteration order of the HashMap.
GenUpdatePositions ==
    /\ gpc = "packing"
    /\ pc = "ok"
    /\ \E order \in IterationOrders(DOMAIN positions) :
          LET r == UpdateOrigins([characters |-> characters, shapes |-> shapes],
                                 positions, order)
          IN  /\ characters' = r.characters
              /\ shapes' = r.shapes
    /\ gpc' = "registry"
    /\ UNCHANGED <<config, sdf_images, result, packVars, fieldVars, jsonVars,
                   earlier, toolVars>>

\* Lines 276-284: the metadata of the registry.
NewMetadata(cfg) ==
    [atlas_width |-> cfg.atlas_size,
     atlas_height |-> cfg.atlas_size,
     resolution |-> cfg.sdf_size,
     padding |-> cfg.padding]

\* Lines 274-292: the registry is assembled and the result returned.
GenReturn ==
    /\ gpc = "registry"
    /\ result' = [sprite_sheet |-> atlas,
                  registry |-> [metadata |-> NewMetadata(config),
                                characters |-> characters,
                                shapes |-> shapes]]
    /\ gpc' = "ok"
    /\ UNCHANGED <<config, characters, shapes, sdf_images, packVars,
                   fieldVars, jsonVars,
                   earlier, toolVars>>

\* pack_atlas panicked inside generate: the thread unwinds out of generate,
\* which returns nothing.
GenAborted == gpc = "packing" /\ pc = "panic"

InitGenerate ==
    /\ PackIdle /\ FieldIdle /\ JsonIdle /\ ToolsIdle
    /\ config \in Configs
    /\ gpc = "start"
    /\ characters = EmptyMap /\ shapes = EmptyMap
    /\ sdf_images = <<>> /\ result = EmptyMap
    /\ earlier = EmptyMap

NextGenerate ==
    \/ GenCharacters \/ GenShapes \/ GenPack
    \/ PackEnter \/ PackTile \/ PackReturn
    \/ GenUpdatePositions \/ GenReturn

SpecGenerate == InitGenerate /\ [][NextGenerate]_vars

-----------------------------------------------------------------------------
(* Two runs of generate on the same configuration and font *)

\* generate has returned (Ok or Err) and is called again on the same
\* SdfGenerator: what it returned is kept, and every local starts anew.
GenAgain ==
    /\ gpc \in {"ok", "err"}
    /\ earlier = EmptyMap
    /\ earlier' = [status |-> gpc, result |-> result]
    /\ gpc' = "start"
    /\ characters' = EmptyMap /\ shapes' = EmptyMap
    /\ sdf_images' = <<>> /\ result' = EmptyMap
    /\ ids' = <<>> /\ atlas_size' = 0 /\ padding' = 0 /\ pc' = "idle"
    /\ i' = 0 /\ grid_size' = 0 /\ cell_size' = 0 /\ content_size' = 0
    /\ positions' = EmptyMap /\ atlas' = EmptyMap
    /\ UNCHANGED <<config, call, prev, fieldVars, jsonVars, toolVars>>

\* The configurations of the two-run model: the full range of fonts, requests
\* and paddings, at one tile size and the atlas sizes 0 and MaxAtlas.
TwiceConfigs ==
    {cfg \in Configs : cfg.sdf_size = 1 /\ cfg.atlas_size \in {0, MaxAtlas}}

InitGenerateTwice ==
    /\ PackIdle /\ FieldIdle /\ JsonIdle /\ ToolsIdle
    /\ config \in TwiceConfigs
    /\ gpc = "start"
    /\ characters = EmptyMap /\ shapes = EmptyMap
    /\ sdf_images = <<>> /\ result = EmptyMap
    /\ earlier = EmptyMap

NextGenerateTwice == NextGenerate \/ GenAgain

SpecGenerateTwice == InitGenerateTwice /\ [][NextGenerateTwice]_vars

\* C27: two executions of generate with the same configuration and the same
\* font return the same outcome, and when both succeed, equal registries:
\* equal characters maps, equal shapes maps and equal metadata (the creation
\* time apart, which the model's metadata does not carry).
C27_RunsAgree ==
    (earlier # EmptyMap /\ gpc \in {"ok", "err"}) =>
        /\ gpc = earlier.status
        /\ gpc = "ok" => result.registry = earlier.result.registry


-----------------------------------------------------------------------------
(* generate: the claims *)

\* The registry entries a placement id names, and the placement ids that
\* name a registry entry.
EntriesOf(id, r) ==
    {<<"character", ch>> : ch \in {c \in DOMAIN r.characters : FormatChar(c) = id}}
    \cup {<<"shape", nm>> : nm \in {n \in DOMAIN r.shapes : FormatShape(n) = id}}

Entries(r) ==
    {<<"character", ch>> : ch \in DOMAIN r.characters}
    \cup {<<"shape", nm>> : nm \in DOMAIN r.shapes}

PlacementsOf(entry, placed, r) ==
    {id \in DOMAIN placed : entry \in EntriesOf(id, r)}

TileIds == {sdf_images[n].id : n \in DOMAIN sdf_images}

\* C11: whenever generate succeeds, placements and registry entries are in
\* bijection: there are as many placements as characters plus shapes, every
\* placement id names exactly one registry entry, every registry entry is
\* named by exactly one placement id, and a requested character the font has
\* no glyph for is neither in the tile list nor in the registry.
C11_PlacementsMatchRegistry ==
    gpc = "ok" =>
        LET r == result.registry
        IN  /\ Cardinality(DOMAIN positions)
                 = Cardinality(DOMAIN r.characters) + Cardinality(DOMAIN r.shapes)
            /\ \A id \in DOMAIN positions : Cardinality(EntriesOf(id, r)) = 1
            /\ \A e \in Entries(r) : Cardinality(PlacementsOf(e, positions, r)) = 1
            /\ \A ch \in SetOfSeq(config.characters) \ config.font.glyphs :
                  /\ ch \notin DOMAIN r.characters
                  /\ FormatChar(ch) \notin TileIds

\* generate has succeeded on a request with a character the font has a glyph
\* for, one it has none for, and the shapes.
C11_Witness ==
    /\ gpc = "ok"
    /\ config.font.state = "face"
    /\ config.characters = <<"b", "a">>
    /\ config.font.glyphs = {"a"}
    /\ config.include_shapes
    /\ Cardinality(DOMAIN positions) = 4

\* The rectangle a registry entry records.
Rect(info) ==
    [x |-> info.x, y |-> info.y, width |-> info.width, height |-> info.height]

\* C13: when generate succeeds, the rectangle (x, y, width, height) the
\* registry records for each character and shape equals the placement
\* rectangle pack_atlas returned for its tile.
C13_RegistryRectIsPlacement ==
    gpc = "ok" =>
        LET r == result.registry
        IN  /\ \A ch \in DOMAIN r.characters :
                  Rect(r.characters[ch]) = positions[FormatChar(ch)]
            /\ \A nm \in DOMAIN r.shapes :
                  Rect(r.shapes[nm]) = positions[FormatShape(nm)]

\* C16: generate is all-or-nothing: it never aborts on the way, a success
\* carries the whole atlas and a registry with an entry for every tile that
\* was packed, and an error carries neither atlas nor registry.
C16_GenerateAllOrNothing ==
    /\ ~GenAborted
    /\ gpc = "ok" =>
          /\ result.sprite_sheet = atlas
          /\ DOMAIN result.sprite_sheet = 0..(config.atlas_size - 1)
          /\ \A id \in TileIds : EntriesOf(id, result.registry) # {}
    /\ gpc = "err" => result = EmptyMap

\* The CharacterInfo or ShapeInfo of a registry entry.
InfoOf(entry, r) ==
    IF entry[1] = "character" THEN r.characters[entry[2]] ELSE r.shapes[entry[2]]

\* C23: the registry is assembled only after pack_atlas has returned all
\* placements, and when generate returns Ok every character and shape entry
\* carries as (x, y) the origin of the placement of its own tile (the origin
\* the tile's pixels were copied to): no entry keeps the placeholder position
\* and none gets the position of another tile.
C23_EntriesCarryOwnOrigin ==
    /\ gpc \in {"registry", "ok"} => pc = "ok" /\ i = Len(ids)
    /\ result # EmptyMap => gpc = "ok"
    /\ gpc = "ok" =>
          LET r == result.registry
          IN  \A e \in Entries(r) :
                 \E n \in DOMAIN sdf_images :
                    LET id == sdf_images[n].id
                        x == TileX(n - 1, grid_size, cell_size, padding)
                        y == TileY(n - 1, grid_size, cell_size, padding)
                    IN  /\ e \in EntriesOf(id, r)
                        /\ positions[id].x = x /\ positions[id].y = y
                        /\ InfoOf(e, r).x = x /\ InfoOf(e, r).y = y

\* generate has succeeded with a character and three shapes on a padded
\* two-by-two grid, so no tile lies at the placeholder position (0, 0).
C23_Witness ==
    /\ gpc = "ok"
    /\ config.padding = 1 /\ config.atlas_size = MaxAtlas
    /\ DOMAIN result.registry.characters = {"a"}
    /\ DOMAIN result.registry.shapes = BasicShapes
    /\ \E e \in Entries(result.registry) :
          InfoOf(e, result.registry).x # InfoOf(e, result.registry).y

\* C24: in the registry of a successful generate, every character entry and
\* every shape entry has width and height equal to metadata.resolution (the
\* configured sdf_size), whatever atlas_size, padding and number of tiles.
C24_EntrySizeIsResolution ==
    gpc = "ok" =>
        LET r == result.registry
        IN  /\ r.metadata.resolution = config.sdf_size
            /\ \A e \in Entries(r) :
                  /\ InfoOf(e, r).width = r.metadata.resolution
                  /\ InfoOf(e, r).height = r.metadata.resolution

\* generate has succeeded with characters and shapes whose tiles were
\* resized to a content size other than sdf_size.
C24_Witness ==
    /\ gpc = "ok"
    /\ config.sdf_size = MaxSdfSize
    /\ config.padding = 1
    /\ content_size # config.sdf_size
    /\ DOMAIN result.registry.characters # {}
    /\ DOMAIN result.registry.shapes # {}


-----------------------------------------------------------------------------
(* The position loop of generate on any placement map: lines 257-272 *)

\* Placement ids: of characters and shapes, and ids of other forms ("glyph_a",
\* "char_" with nothing behind the prefix, "char_ab").
PlacementIds ==
    {FormatChar("a"), FormatShape("circle")}
    \cup {<<"glyph_", "a">>, <<"char_">>, <<"char_", "a", "b">>}

\* Two placements of a 2x2 grid of 2-pixel cells.
Origins ==
    {[x |-> 0, y |-> 0, width |-> 2, height |-> 2],
     [x |-> 2, y |-> 0, width |-> 2, height |-> 2]}

PlacementMaps == UNION {[D -> Origins] : D \in SUBSET PlacementIds}

\* The configuration of the loop's runs: no font, 2-pixel tiles, atlas of 4.
UpdateConfig ==
    [font |-> [state |-> "none", glyphs |-> {}],
     characters |-> <<>>,
     sdf_size |-> 2,
     atlas_size |-> 4,
     padding |-> 0,
     include_shapes |-> FALSE]

\* The loop is entered with some registry maps and some placement map.
InitUpdate ==
    /\ FieldIdle /\ JsonIdle /\ ToolsIdle
    /\ config = UpdateConfig
    /\ gpc = "packing"
    /\ \E C \in SUBSET Alphabet :
          characters = [ch \in C |->
                          [x |-> 0, y |-> 0, width |-> 2, height |-> 2,
                           advance |-> 2, bearing_x |-> 0, bearing_y |-> 2]]
    /\ \E S \in {{}, {"circle", "square"}} :
          shapes = [nm \in S |-> NewShapeInfo(UpdateConfig)]
    /\ sdf_images = <<>> /\ result = EmptyMap /\ earlier = EmptyMap
    /\ ids = <<>> /\ atlas_size = 4 /\ padding = 0 /\ call = 1 /\ pc = "ok"
    /\ i = 0 /\ grid_size = 2 /\ cell_size = 2 /\ content_size = 2
    /\ positions \in PlacementMaps
    /\ atlas = NewAtlas(4)
    /\ prev = NoResult

NextUpdate == GenUpdatePositions \/ GenReturn

SpecUpdate == InitUpdate /\ [][NextUpdate]_vars

\* A placement id that names no entry of the registry maps.
Dangling(id) ==
    EntriesOf(id, [characters |-> characters, shapes |-> shapes]) = {}

-----------------------------------------------------------------------------
(* The registry as JSON: the Serialize and Deserialize derived for         *)
(* SdfRegistry and its parts (script_2.py 148-183), as serde_json runs     *)
(* them (to_string_pretty in main, lines 114-118)                          *)

\* An f32: a finite value (the values of this model are whole numbers), an
\* infinity or a NaN.
Finite(n) == [kind |-> "finite", v |-> n]
F32s == {Finite(4), [kind |-> "inf", v |-> 0], [kind |-> "nan", v |-> 0]}

\* JSON values: a text is kept as the value tree it spells, an object as the
\* sequence of its members <<key, value>> in the order they are written.
JNumber(n) == [t |-> "number", n |-> n, s |-> "", members |-> <<>>]
JString(str) == [t |-> "string", n |-> 0, s |-> str, members |-> <<>>]
JNull == [t |-> "null", n |-> 0, s |-> "", members |-> <<>>]
JObject(members) == [t |-> "object", n |-> 0, s |-> "", members |-> members]

\* serde_json writes a finite f32 as a number that reads back as the same
\* f32, and an infinity or NaN as null.
SerializeF32(f) == IF f.kind = "finite" THEN JNumber(f.v) ELSE JNull

\* #[derive(Serialize)] writes the fields of a struct in declaration order.
SerializeMetadata(md) ==
    JObject(<< <<"atlas_width", JNumber(md.atlas_width)>>,
               <<"atlas_height", JNumber(md.atlas_height)>>,
               <<"sdf_range", SerializeF32(md.sdf_range)>>,
               <<"resolution", JNumber(md.resolution)>>,
               <<"padding", JNumber(md.padding)>>,
               <<"format", JString(md.format)>>,
               <<"created", JString(md.created)>> >>)

SerializeCharacterInfo(info) ==
    JObject(<< <<"x", JNumber(info.x)>>,
               <<"y", JNumber(info.y)>>,
               <<"width", JNumber(info.width)>>,
               <<"height", JNumber(info.height)>>,
               <<"advance", SerializeF32(info.advance)>>,
               <<"bearing_x", SerializeF32(info.bearing_x)>>,
               <<"bearing_y", SerializeF32(info.bearing_y)>> >>)

SerializeShapeInfo(info) ==
    JObject(<< <<"x", JNumber(info.x)>>,
               <<"y", JNumber(info.y)>>,
               <<"width", JNumber(info.width)>>,
               <<"height", JNumber(info.height)>> >>)

\* A HashMap is written as an object whose members follow the map's
\* iteration order.
SerializeCharacters(m, order) ==
    JObject([n \in DOMAIN order |->
               <<order[n], SerializeCharacterInfo(m[order[n]])>>])

SerializeShapes(m, order) ==
    JObject([n \in DOMAIN order |->
               <<order[n], SerializeShapeInfo(m[order[n]])>>])

\* SdfRegistry, lines 148-153.
SerializeRegistry(r, char_order, shape_order) ==
    JObject(<< <<"metadata", SerializeMetadata(r.metadata)>>,
               <<"characters",
                 SerializeCharacters(r.characters, char_order)>>,
               <<"shapes",
                 SerializeShapes(r.shapes, shape_order)>> >>)

\* Deserialization gives a value or fails.
Parsed(v) == [ok |-> TRUE, value |-> v]
ParseError == [ok |-> FALSE, value |-> EmptyMap]

\* The values an object has under a key.
Members(obj, key) ==
    {obj.members[n][2] : n \in {j \in DOMAIN obj.members : obj.members[j][1] = key}}

\* A struct is read from an object that has each of its fields once.
HasFields(obj, fields) ==
    /\ obj.t = "object"
    /\ \A f \in fields :
          Cardinality({j \in DOMAIN obj.members : obj.members[j][1] = f}) = 1

Field(obj, key) == CHOOSE v \in Members(obj, key) : TRUE

IsU32(v) == v.t = "number" /\ v.n >= 0
IsF32(v) == v.t = "number"
IsString(v) == v.t = "string"

ParseMetadata(obj) ==
    IF /\ HasFields(obj, {"atlas_width", "atlas_height", "sdf_range",
                          "resolution", "padding", "format", "created"})
       /\ \A f \in {"atlas_width", "atlas_height", "resolution", "padding"} :
             IsU32(Field(obj, f))
       /\ IsF32(Field(obj, "sdf_range"))
       /\ IsString(Field(obj, "format")) /\ IsString(Field(obj, "created"))
    THEN Parsed([atlas_width |-> Field(obj, "atlas_width").n,
                 atlas_height |-> Field(obj, "atlas_height").n,
                 sdf_range |-> Finite(Field(obj, "sdf_range").n),
                 resolution |-> Field(obj, "resolution").n,
                 padding |-> Field(obj, "padding").n,
                 format |-> Field(obj, "format").s,
                 created |-> Field(obj, "created").s])
    ELSE ParseError

ParseCharacterInfo(obj) ==
    IF /\ HasFields(obj, {"x", "y", "width", "height",
                          "advance", "bearing_x", "bearing_y"})
       /\ \A f \in {"x", "y", "width", "height"} : IsU32(Field(obj, f))
       /\ \A f \in {"advance", "bearing_x", "bearing_y"} : IsF32(Field(obj, f))
    THEN Parsed([x |-> Field(obj, "x").n, y |-> Field(obj, "y").n,
                 width |-> Field(obj, "width").n,
                 height |-> Field(obj, "height").n,
                 advance |-> Finite(Field(obj, "advance").n),
                 bearing_x |-> Finite(Field(obj, "bearing_x").n),
                 bearing_y |-> Finite(Field(obj, "bearing_y").n)])
    ELSE ParseError

ParseShapeInfo(obj) ==
    IF /\ HasFields(obj, {"x", "y", "width", "height"})
       /\ \A f \in {"x", "y", "width", "height"} : IsU32(Field(obj, f))
    THEN Parsed([x |-> Field(obj, "x").n, y |-> Field(obj, "y").n,
                 width |-> Field(obj, "width").n,
                 height |-> Field(obj, "height").n])
    ELSE ParseError

\* A map is read member by member, a later member replacing an earlier one
\* of the same key.
LastMember(obj, key) ==
    LET last == CHOOSE n \in DOMAIN obj.members :
                   /\ obj.members[n][1] = key
                   /\ \A j \in DOMAIN obj.members :
                         obj.members[j][1] = key => j <= n
    IN  obj.members[last][2]

Keys(obj) == {obj.members[n][1] : n \in DOMAIN obj.members}

ParseCharacters(obj) ==
    IF /\ obj.t = "object"
       /\ \A n \in DOMAIN obj.members : ParseCharacterInfo(obj.members[n][2]).ok
    THEN Parsed([key \in Keys(obj) |->
                   ParseCharacterInfo(LastMember(obj, key)).value])
    ELSE ParseError

ParseShapes(obj) ==
    IF /\ obj.t = "object"
       /\ \A n \in DOMAIN obj.members : ParseShapeInfo(obj.members[n][2]).ok
    THEN Parsed([key \in Keys(obj) |->
                   ParseShapeInfo(LastMember(obj, key)).value])
    ELSE ParseError

ParseRegistry(text) ==
    IF HasFields(text, {"metadata", "characters", "shapes"})
    THEN LET md == ParseMetadata(Field(text, "metadata"))
             cs == ParseCharacters(Field(text, "characters"))
             ss == ParseShapes(Field(text, "shapes"))
         IN  IF md.ok /\ cs.ok /\ ss.ok
             THEN Parsed([metadata |-> md.value,
                          characters |-> cs.value,
                          shapes |-> ss.value])
             ELSE ParseError
    ELSE ParseError

\* The registries generate builds for 2-pixel tiles in an atlas of 4 (at
\* least one tile, the shapes all or none), with any sdf_range the command
\* line takes ("4", "inf", "NaN").
AnyRegistries ==
    {[metadata |-> [atlas_width |-> 4, atlas_height |-> 4, sdf_range |-> range,
                    resolution |-> 2, padding |-> 0, format |-> fmt,
                    created |-> "2024-01-01T00:00:00+00:00"],
      characters |-> [ch \in C |->
                        [x |-> IF ch = "a" THEN 0 ELSE 2, y |-> 0,
                         width |-> 2, height |-> 2,
                         advance |-> Finite(GlyphAdvance(ch) * 2),
                         bearing_x |-> Finite(0), bearing_y |-> Finite(2)]],
      shapes |-> [nm \in S |->
                    [x |-> IF nm = "circle" THEN 0 ELSE 2,
                     y |-> IF nm = "square" THEN 0 ELSE 2,
                     width |-> 2, height |-> 2]]] :
        range \in F32s, fmt \in {"single_channel", "multi_channel"},
        C \in SUBSET Alphabet, S \in {{}, BasicShapes}}

Registries ==
    {r \in AnyRegistries : DOMAIN r.characters \cup DOMAIN r.shapes # {}}

InitJson ==
    /\ PackIdle /\ FieldIdle /\ GenIdle /\ ToolsIdle
    /\ reg \in Registries
    /\ texts = <<>>
    /\ parsed = EmptyMap
    /\ jpc = "write"

\* Lines 115-116: serde_json::to_string_pretty(&registry).  It is run twice,
\* on two registries with these entries and metadata; each HashMap has its
\* own iteration order.
JsonWrite ==
    /\ jpc = "write"
    /\ \E char_order \in IterationOrders(DOMAIN reg.characters),
          shape_order \in IterationOrders(DOMAIN reg.shapes) :
          texts' = Append(texts, SerializeRegistry(reg, char_order, shape_order))
    /\ jpc' = IF Len(texts) = 1 THEN "read" ELSE "write"
    /\ UNCHANGED <<reg, parsed, packVars, fieldVars, genVars, toolVars>>

\* serde_json::from_str::<SdfRegistry> on the first text.
JsonRead ==
    /\ jpc = "read"
    /\ parsed' = ParseRegistry(texts[1])
    /\ jpc' = "done"
    /\ UNCHANGED <<reg, texts, packVars, fieldVars, genVars, toolVars>>

NextJson == JsonWrite \/ JsonRead

SpecJson == InitJson /\ [][NextJson]_vars

\* C14: serialization is deterministic: two registries with the same entries
\* and the same metadata serialize to the same text.
C14_SerializationDeterministic ==
    Len(texts) = 2 => texts[1] = texts[2]

\* C17: serializing a registry and parsing the text back succeeds and yields
\* a registry with the same metadata fields (the creation time aside), the
\* same characters and the same shapes.
C17_JsonRoundTrip ==
    jpc = "done" =>
        /\ parsed.ok
        /\ [parsed.value.metadata EXCEPT !.created = ""]
              = [reg.metadata EXCEPT !.created = ""]
        /\ parsed.value.characters = reg.characters
        /\ parsed.value.shapes = reg.shapes

-----------------------------------------------------------------------------
(* create_registry: script_3.py lines 453-508 *)

\* The (x, y, width, height) tuples of the position arguments.
PositionTuples == {<<x, y, side, side>> : x \in {0, 3}, y \in {0, 3}, side \in 1..3}

\* The glyph metrics the caller holds for a character at a resolution, as
\* generate_character_sdfs computes them (lines 278-291).
MetricsOf(ch, resolution) ==
    [advance |-> GlyphAdvance(ch) * resolution,
     bearing_x |-> GlyphXMin(ch) * resolution,
     bearing_y |-> GlyphYMax(ch) * resolution]

\* Lines 470-480: the CharacterInfo made from a position tuple.  `as f32` is
\* exact for these sizes.
CharacterInfoOfPosition(t) ==
    [x |-> t[1], y |-> t[2], width |-> t[3], height |-> t[4],
     advance |-> t[3], bearing_x |-> 0, bearing_y |-> t[4]]

\* Lines 483-490: the ShapeInfo made from a position tuple.
ShapeInfoOfPosition(t) ==
    [x |-> t[1], y |-> t[2], width |-> t[3], height |-> t[4]]

\* Lines 493-507: the whole function.  The parameters other than the two
\* position maps go to the metadata unchanged; `created` is the time of the
\* call.
CreateRegistry ==
    /\ registry = EmptyMap
    /\ \E now \in {1, 2}, multi_channel \in BOOLEAN :
          registry' =
            [metadata |-> [atlas_width |-> 6, atlas_height |-> 6,
                           sdf_range |-> 4, resolution |-> 1, padding |-> 0,
                           format |-> IF multi_channel
                                      THEN "multi_channel"
                                      ELSE "single_channel",
                           created |-> now],
             characters |-> [ch \in DOMAIN character_positions |->
                               CharacterInfoOfPosition(character_positions[ch])],
             shapes |-> [nm \in DOMAIN shape_positions |->
                           ShapeInfoOfPosition(shape_positions[nm])]]
    /\ UNCHANGED <<glyph_metrics, character_positions, shape_positions,
                   packVars, fieldVars, genVars, jsonVars, copyVars, mainVars,
                   triangleVars>>

InitRegistry ==
    /\ PackIdle /\ FieldIdle /\ GenIdle /\ JsonIdle /\ CopyIdle /\ MainIdle
    /\ TriangleIdle
    /\ \E C \in SUBSET Alphabet :
          /\ character_positions \in [C -> PositionTuples]
          /\ glyph_metrics = [ch \in C |-> MetricsOf(ch, 1)]
    /\ \E S \in {{}, {"circle"}} : shape_positions \in [S -> PositionTuples]
    /\ registry = EmptyMap

NextRegistry == CreateRegistry

SpecRegistry == InitRegistry /\ [][NextRegistry]_vars

\* C25: create_registry records for every character the advance, bearing_x
\* and bearing_y of that character's glyph metrics, together with its
\* placement rectangle; the metric fields are not derived from the
\* rectangle's width and height.
C25_MetricsAreTheGlyphs ==
    registry # EmptyMap =>
        \A ch \in DOMAIN registry.characters :
           LET info == registry.characters[ch]
           IN  /\ <<info.x, info.y, info.width, info.height>>
                    = character_positions[ch]
               /\ info.advance = glyph_metrics[ch].advance
               /\ info.bearing_x = glyph_metrics[ch].bearing_x
               /\ info.bearing_y = glyph_metrics[ch].bearing_y

-----------------------------------------------------------------------------
(* main: script_2.py lines 85-122 *)

AtlasFile == "sdf_atlas.png"
RegistryFile == "sdf_registry.json"

\* What a failed write may leave behind: File::create comes before the
\* bytes are written, so the file is either not there or there (truncated).
AfterFailedWrite(present, name) == {present, present \cup {name}}

\* Lines 86-106: the arguments are parsed, the output directory is created
\* and generate is called; create_dir_all may fail.
MainStart ==
    /\ mpc = "start"
    /\ \/ /\ mpc' = "err"
          /\ UNCHANGED gpc
       \/ /\ mpc' = "generate"
          /\ gpc' = "start"
    /\ UNCHANGED <<files, config, characters, shapes, sdf_images, result,
                   earlier, packVars, fieldVars, jsonVars, copyVars,
                   registryVars, triangleVars>>

\* Line 106: generate has returned; `?` returns its error from main.
MainGenerated ==
    /\ mpc = "generate"
    /\ gpc \in {"ok", "err"}
    /\ mpc' = IF gpc = "ok" THEN "save" ELSE "err"
    /\ UNCHANGED <<files, packVars, fieldVars, genVars, jsonVars, copyVars,
                   registryVars, triangleVars>>

\* Lines 109-111: result.sprite_sheet.save(&sprite_path)?.
MainSaveAtlas ==
    /\ mpc = "save"
    /\ \/ /\ files' = files \cup {AtlasFile}
          /\ mpc' = "serialize"
       \/ /\ files' \in AfterFailedWrite(files, AtlasFile)
          /\ mpc' = "err"
    /\ UNCHANGED <<packVars, fieldVars, genVars, jsonVars, copyVars,
                   registryVars, triangleVars>>

\* Line 116: serde_json::to_string_pretty(&result.registry)?; serializing a
\* registry to a String does not fail (a non-finite f32 is written as null).
MainSerialize ==
    /\ mpc = "serialize"
    /\ mpc' = "write"
    /\ UNCHANGED <<files, packVars, fieldVars, genVars, jsonVars, copyVars,
                   registryVars, triangleVars>>

\* Lines 117-121: std::fs::write(&registry_path, registry_json)? and Ok(()).
MainWriteRegistry ==
    /\ mpc = "write"
    /\ \/ /\ files' = files \cup {RegistryFile}
          /\ mpc' = "ok"
       \/ /\ files' \in AfterFailedWrite(files, RegistryFile)
          /\ mpc' = "err"
    /\ UNCHANGED <<packVars, fieldVars, genVars, jsonVars, copyVars,
                   registryVars, triangleVars>>

\* main starts in an output directory that holds neither file.
InitMain ==
    /\ PackIdle /\ FieldIdle /\ JsonIdle /\ CopyIdle /\ RegistryIdle
    /\ TriangleIdle
    /\ config \in TwiceConfigs
    /\ gpc = "idle"
    /\ characters = EmptyMap /\ shapes = EmptyMap
    /\ sdf_images = <<>> /\ result = EmptyMap
    /\ earlier = EmptyMap
    /\ mpc = "start"
    /\ files = {}

NextMain ==
    \/ MainStart \/ NextGenerate \/ MainGenerated
    \/ MainSaveAtlas \/ MainSerialize \/ MainWriteRegistry

SpecMain == InitMain /\ [][NextMain]_vars

\* C26: main leaves no partial output: when it has returned an error neither
\* sdf_atlas.png nor sdf_registry.json exists, and the atlas file is never
\* present without the registry file.
C26_OutputIsAllOrNothing ==
    /\ mpc = "err" => files = {}
    /\ AtlasFile \in files => RegistryFile \in files

-----------------------------------------------------------------------------
(* IEEE-754 binary32 arithmetic, round to nearest, ties to even *)

RECURSIVE Pow2(_)
Pow2(n) == IF n = 0 THEN 1 ELSE 2 * Pow2(n - 1)

RECURSIVE BitLength(_)
BitLength(n) == IF n = 0 THEN 0 ELSE 1 + BitLength(n \div 2)

\* A finite f32 is (-1)^neg * man * 2^exp with man = 0 or 2^23 <= man < 2^24.
\* The values of this model stay far from the largest and the least normal
\* f32, so the exponent is not bounded.
F32(neg, man, exp) == [neg |-> neg, man |-> man, exp |-> exp]

F32Zero == F32(FALSE, 0, 0)

\* Rust passes arguments by value: an operand is evaluated once, before the
\* body of the operation, and the body works on that value.
ByValue(results) == CHOOSE r \in results : TRUE

\* The f32 nearest to n * 2^exp, for an integer 0 <= n < 2^30 whose lowest
\* bit may stand for all the bits below it (a sticky bit) when n has 26
\* bits or more.
F32Round(neg, n0, exp0) ==
    ByValue({
        IF n = 0
        THEN F32Zero
        ELSE IF len <= 24
             THEN F32(neg, n * Pow2(24 - len), exp - (24 - len))
             ELSE LET cut == len - 24
                      q == n \div Pow2(cut)
                      rem == n % Pow2(cut)
                      half == Pow2(cut - 1)
                      m == IF rem > half \/ (rem = half /\ q % 2 = 1)
                           THEN q + 1
                           ELSE q
                  IN  IF m = Pow2(24)
                      THEN F32(neg, Pow2(23), exp + cut + 1)
                      ELSE F32(neg, m, exp + cut)
        : n \in {n0}, exp \in {exp0}, len \in {BitLength(n0)} })

\* `n as f32` for an integer of magnitude below 2^24, and a decimal literal
\* num/den (the f32 nearest to the quotient, computed below by F32Div).
F32OfInt(n) == F32Round(n < 0, Abs(n), 0)

F32Neg(x0) ==
    ByValue({IF x.man = 0 THEN x ELSE F32(~x.neg, x.man, x.exp) : x \in {x0}})

\* man >> by with the bits shifted out kept as a sticky lowest bit.
ShiftRightSticky(man, by) ==
    IF by >= 28
    THEN IF man = 0 THEN 0 ELSE 1
    ELSE LET q == man \div Pow2(by)
         IN  IF man % Pow2(by) # 0 /\ q % 2 = 0 THEN q + 1 ELSE q

\* x + y: the operands are aligned with three extra bits (guard, round,
\* sticky), added or subtracted, and the result rounded.
F32Add(x0, y0) ==
    ByValue({
        IF x.man = 0 THEN y
        ELSE IF y.man = 0 THEN x
        ELSE LET x_big == x.exp > y.exp \/ (x.exp = y.exp /\ x.man >= y.man)
                 big == IF x_big THEN x ELSE y
                 small == IF x_big THEN y ELSE x
                 b == big.man * 8
                 s == ShiftRightSticky(small.man * 8, big.exp - small.exp)
             IN  IF big.neg = small.neg
                 THEN F32Round(big.neg, b + s, big.exp - 3)
                 ELSE F32Round(big.neg, b - s, big.exp - 3)
        : x \in {x0}, y \in {y0} })

F32Sub(x, y) == F32Add(x, F32Neg(y))

\* x * y: the 48-bit product of the mantissas from 12-bit halves, cut to its
\* upper bits with a sticky bit, and rounded.
F32Mul(x0, y0) ==
    ByValue({
        IF x.man = 0 \/ y.man = 0
        THEN F32Zero
        ELSE LET h1 == x.man \div 4096
                 l1 == x.man % 4096
                 h2 == y.man \div 4096
                 l2 == y.man % 4096
                 mid == h1 * l2 + l1 * h2
                 low == (mid % 4096) * 4096 + l1 * l2
                 hi == h1 * h2 + mid \div 4096 + low \div 16777216
                 lo == low % 16777216
                 n == hi * 4 + lo \div 4194304
                 sticky == IF lo % 4194304 # 0 THEN 1 ELSE 0
             IN  F32Round(x.neg # y.neg, 2 * n + sticky, x.exp + y.exp + 21)
        : x \in {x0}, y \in {y0} })

\* The first `bits` bits of rem / dvs, for rem < 2 * dvs, and the remainder.
RECURSIVE QuotientBits(_, _, _, _)
QuotientBits(rem, dvs, bits, q) ==
    IF bits = 0
    THEN [q |-> q, rem |-> rem]
    ELSE IF rem >= dvs
         THEN QuotientBits(2 * (rem - dvs), dvs, bits - 1, 2 * q + 1)
         ELSE QuotientBits(2 * rem, dvs, bits - 1, 2 * q)

\* x / y for y # 0: 26 bits of the quotient of the mantissas by long
\* division, a sticky bit for the remainder, and the result rounded.
F32Div(x0, y0) ==
    ByValue({
        IF x.man = 0
        THEN F32Zero
        ELSE ByValue({
                 F32Round(x.neg # y.neg,
                          2 * d.q + (IF d.rem # 0 THEN 1 ELSE 0),
                          x.exp - y.exp - 26)
                 : d \in {QuotientBits(x.man, y.man, 26, 0)} })
        : x \in {x0}, y \in {y0} })

\* A decimal literal num/den of the source: the f32 nearest to it.
F32Literal(num, den) == F32Div(F32OfInt(num), F32OfInt(den))

F32IsZero(x) == x.man = 0
F32Lt(x, y) == ByValue({d.man # 0 /\ d.neg : d \in {F32Sub(x, y)}})
F32Geq0(x) == x.man = 0 \/ ~x.neg

\* f32::min and f32::clamp.
F32Min(x0, y0) ==
    ByValue({IF F32Lt(y, x) THEN y ELSE x : x \in {x0}, y \in {y0}})
F32Clamp(x0, lo, hi) ==
    ByValue({IF F32Lt(x, lo) THEN lo ELSE IF F32Lt(hi, x) THEN hi ELSE x
             : x \in {x0}})
-----------------------------------------------------------------------------
(* The triangle SDF: script_3.py lines 147-243 *)

\* A distance kept as the f32 value under the square root: the f32 square
\* root is monotone, zero at zero only, so minima, signs and zeros of
\* distances are those of the values under the root.
RootOf(sq) == [under |-> sq]

\* Lines 217-233.  `sq` of the result is the argument of the final sqrt.
PointToLineDistance(px, py, p1, p2) ==
    LET dx == F32Sub(p2[1], p1[1])
        dy == F32Sub(p2[2], p1[2])
        length_sq == F32Add(F32Mul(dx, dx), F32Mul(dy, dy))
        ex == F32Sub(px, p1[1])
        ey == F32Sub(py, p1[2])
    IN  IF F32IsZero(length_sq)
        THEN RootOf(F32Add(F32Mul(ex, ex), F32Mul(ey, ey)))
        ELSE LET t0 == F32Div(F32Add(F32Mul(ex, dx), F32Mul(ey, dy)), length_sq)
                 t == F32Clamp(t0, F32Zero, F32OfInt(1))
                 closest_x == F32Add(p1[1], F32Mul(t, dx))
                 closest_y == F32Add(p1[2], F32Mul(t, dy))
                 cx == F32Sub(px, closest_x)
                 cy == F32Sub(py, closest_y)
             IN  RootOf(F32Add(F32Mul(cx, cx), F32Mul(cy, cy)))

\* Lines 235-243: the barycentric test, for a triangle with denom # 0.
IsPointInTriangle(px, py, v0, v1, v2) ==
    LET denom == F32Add(F32Mul(F32Sub(v1[2], v2[2]), F32Sub(v0[1], v2[1])),
                        F32Mul(F32Sub(v2[1], v1[1]), F32Sub(v0[2], v2[2])))
        a == F32Div(F32Add(F32Mul(F32Sub(v1[2], v2[2]), F32Sub(px, v2[1])),
                           F32Mul(F32Sub(v2[1], v1[1]), F32Sub(py, v2[2]))),
                    denom)
        b == F32Div(F32Add(F32Mul(F32Sub(v2[2], v0[2]), F32Sub(px, v2[1])),
                           F32Mul(F32Sub(v0[1], v2[1]), F32Sub(py, v2[2]))),
                    denom)
        c == F32Sub(F32Sub(F32OfInt(1), a), b)
    IN  F32Geq0(a) /\ F32Geq0(b) /\ F32Geq0(c)

\* d1.min(d2), on the values under the roots.
RootMin(r1, r2) == RootOf(F32Min(r1.under, r2.under))

\* Lines 197-215: the result is -min_dist or min_dist; it is kept as the
\* sign bit and min_dist.
TriangleSdf(px, py, v0, v1, v2) ==
    LET d1 == PointToLineDistance(px, py, v0, v1)
        d2 == PointToLineDistance(px, py, v1, v2)
        d3 == PointToLineDistance(px, py, v2, v0)
        inside == IsPointInTriangle(px, py, v0, v1, v2)
        min_dist == RootMin(RootMin(d1, d2), d3)
    IN  [negated |-> inside, magnitude |-> min_dist]

\* Lines 153-155: the vertices of generate_triangle_sdf.
TriangleV0 == <<F32Zero, F32Neg(F32Literal(866, 1000))>>
TriangleV1 == <<F32Neg(F32Literal(75, 100)), F32Literal(433, 1000)>>
TriangleV2 == <<F32Literal(75, 100), F32Literal(433, 1000)>>

\* Lines 149-150 and 159-160: the point generate_triangle_sdf passes for the
\* pixel column or row n of an image of the given size.
TriangleCoordinate(n, size) ==
    LET center == F32Div(F32OfInt(size), F32OfInt(2))
        scale == F32Mul(center, F32Literal(8, 10))
    IN  F32Div(F32Sub(F32OfInt(n), center), scale)

\* triangle_sdf is applied to the point generate_triangle_sdf passes for one
\* pixel of an image of 1 to MaxTriangleSize pixels a side (lines 157-163).
InitTriangle ==
    /\ PackIdle /\ FieldIdle /\ GenIdle /\ JsonIdle
    /\ CopyIdle /\ MainIdle /\ RegistryIdle
    /\ \E size \in 1..MaxTriangleSize :
          \E x \in 0..(size - 1), y \in 0..(size - 1) :
             tri_input = [size |-> size, x |-> x, y |-> y,
                          px |-> TriangleCoordinate(x, size),
                          py |-> TriangleCoordinate(y, size)]
    /\ tri_value = EmptyMap

\* Line 163: the call triangle_sdf(px, py, v0, v1, v2).
ApplyTriangleSdf ==
    /\ tri_input # EmptyMap
    /\ tri_value = EmptyMap
    /\ tri_value' = TriangleSdf(tri_input.px, tri_input.py,
                                TriangleV0, TriangleV1, TriangleV2)
    /\ UNCHANGED <<tri_input, packVars, fieldVars, genVars, jsonVars,
                   copyVars, mainVars, registryVars>>

NextTriangle == ApplyTriangleSdf

SpecTriangle == InitTriangle /\ [][NextTriangle]_vars
-----------------------------------------------------------------------------
(* Exact arithmetic on the values of f32 operands *)

\* A natural number as its digits to the base 2^15, least significant first,
\* without leading zeros; an exact value is (-1)^neg * mag * 2^exp.
Base == Pow2(15)

RECURSIVE Trimmed(_)
Trimmed(d) ==
    IF d # <<>> /\ d[Len(d)] = 0 THEN Trimmed(SubSeq(d, 1, Len(d) - 1)) ELSE d

RECURSIVE NatAdd(_, _, _)
NatAdd(a, b, carry) ==
    IF a = <<>> /\ b = <<>>
    THEN IF carry = 0 THEN <<>> ELSE <<carry>>
    ELSE LET x == IF a = <<>> THEN 0 ELSE Head(a)
             y == IF b = <<>> THEN 0 ELSE Head(b)
             s == x + y + carry
         IN  <<s % Base>> \o NatAdd(IF a = <<>> THEN a ELSE Tail(a),
                                    IF b = <<>> THEN b ELSE Tail(b),
                                    s \div Base)

\* a - b for a >= b.
RECURSIVE NatSubFrom(_, _, _)
NatSubFrom(a, b, borrow) ==
    IF a = <<>>
    THEN <<>>
    ELSE LET y == IF b = <<>> THEN 0 ELSE Head(b)
             s == Head(a) - y - borrow
         IN  <<IF s < 0 THEN s + Base ELSE s>>
             \o NatSubFrom(Tail(a), IF b = <<>> THEN b ELSE Tail(b),
                           IF s < 0 THEN 1 ELSE 0)

NatSub(a, b) == Trimmed(NatSubFrom(a, b, 0))

\* a < b on trimmed digit sequences.
RECURSIVE NatLess(_, _)
NatLess(a, b) ==
    IF Len(a) # Len(b) THEN Len(a) < Len(b)
    ELSE IF a = <<>> THEN FALSE
    ELSE IF a[Len(a)] # b[Len(b)] THEN a[Len(a)] < b[Len(b)]
    ELSE NatLess(SubSeq(a, 1, Len(a) - 1), SubSeq(b, 1, Len(b) - 1))

RECURSIVE NatTimesDigit(_, _, _)
NatTimesDigit(a, m, carry) ==
    IF a = <<>>
    THEN IF carry = 0 THEN <<>> ELSE <<carry>>
    ELSE LET s == Head(a) * m + carry
         IN  <<s % Base>> \o NatTimesDigit(Tail(a), m, s \div Base)

RECURSIVE NatMul(_, _)
NatMul(a, b) ==
    IF a = <<>> \/ b = <<>>
    THEN <<>>
    ELSE Trimmed(NatAdd(NatTimesDigit(a, Head(b), 0),
                        IF Tail(b) = <<>> THEN <<>>
                        ELSE <<0>> \o NatMul(a, Tail(b)), 0))

RECURSIVE NatOfInt(_)
NatOfInt(n) == IF n = 0 THEN <<>> ELSE <<n % Base>> \o NatOfInt(n \div Base)

\* a * 2^by.
RECURSIVE NatShiftLeft(_, _)
NatShiftLeft(a, by) ==
    IF a = <<>> THEN <<>>
    ELSE IF by >= 15 THEN <<0>> \o NatShiftLeft(a, by - 15)
    ELSE NatTimesDigit(a, Pow2(by), 0)

Exact(neg, mag, exp) == [neg |-> neg, mag |-> mag, exp |-> exp]

\* The value of an f32.
ExactOf(x) == Exact(x.neg, NatOfInt(x.man), x.exp)

ExactNeg(x) == Exact(~x.neg, x.mag, x.exp)

ExactAdd(x, y) ==
    LET e == Min(x.exp, y.exp)
        a == NatShiftLeft(x.mag, x.exp - e)
        b == NatShiftLeft(y.mag, y.exp - e)
    IN  IF x.neg = y.neg
        THEN Exact(x.neg, NatAdd(a, b, 0), e)
        ELSE IF NatLess(a, b)
             THEN Exact(y.neg, NatSub(b, a), e)
             ELSE Exact(x.neg, NatSub(a, b), e)

ExactSub(x, y) == ExactAdd(x, ExactNeg(y))

ExactMul(x, y) == Exact(x.neg # y.neg, NatMul(x.mag, y.mag), x.exp + y.exp)

\* -1, 0 or 1.
ExactSign(x) == IF x.mag = <<>> THEN 0 ELSE IF x.neg THEN -1 ELSE 1

\* The three barycentric coordinates of (px, py) with respect to the
\* triangle v0 v1 v2, in exact arithmetic, as their numerators over the
\* common denominator: a = na / denom, b = nb / denom, c = 1 - a - b.
Barycentric(px, py, v0, v1, v2) ==
    LET x == ExactOf(px)
        y == ExactOf(py)
        x0 == ExactOf(v0[1])
        y0 == ExactOf(v0[2])
        x1 == ExactOf(v1[1])
        y1 == ExactOf(v1[2])
        x2 == ExactOf(v2[1])
        y2 == ExactOf(v2[2])
        denom == ExactAdd(ExactMul(ExactSub(y1, y2), ExactSub(x0, x2)),
                          ExactMul(ExactSub(x2, x1), ExactSub(y0, y2)))
        na == ExactAdd(ExactMul(ExactSub(y1, y2), ExactSub(x, x2)),
                       ExactMul(ExactSub(x2, x1), ExactSub(y, y2)))
        nb == ExactAdd(ExactMul(ExactSub(y2, y0), ExactSub(x, x2)),
                       ExactMul(ExactSub(x0, x2), ExactSub(y, y2)))
        nc == ExactSub(ExactSub(denom, na), nb)
    IN  [denom |-> ExactSign(denom), a |-> ExactSign(na) * ExactSign(denom),
         b |-> ExactSign(nb) * ExactSign(denom),
         c |-> ExactSign(nc) * ExactSign(denom)]

\* All three coordinates are >= 0: the point is in the closed triangle.
InClosedTriangle(px, py, v0, v1, v2) ==
    LET s == Barycentric(px, py, v0, v1, v2)
    IN  s.denom # 0 /\ s.a >= 0 /\ s.b >= 0 /\ s.c >= 0

\* C22: triangle_sdf returns a value <= 0 exactly for the points whose three
\* barycentric coordinates with respect to the triangle are all >= 0 (a point
\* on an edge or a vertex counts as interior) and a value > 0 for every other
\* point, and the magnitude of the value is the minimum of the three
\* point-to-segment distances to the edges.
C22_NonPositiveExactlyInside ==
    tri_value # EmptyMap =>
        LET px == tri_input.px
            py == tri_input.py
            d1 == PointToLineDistance(px, py, TriangleV0, TriangleV1)
            d2 == PointToLineDistance(px, py, TriangleV1, TriangleV2)
            d3 == PointToLineDistance(px, py, TriangleV2, TriangleV0)
            nonpositive == tri_value.negated
                           \/ F32IsZero(tri_value.magnitude.under)
        IN  /\ nonpositive <=>
                  InClosedTriangle(px, py, TriangleV0, TriangleV1, TriangleV2)
            /\ tri_value.magnitude \in {d1, d2, d3}
            /\ \A d \in {d1, d2, d3} :
                  ~F32Lt(d.under, tri_value.magnitude.under)

=============================================================================
